---------------------------- MODULE Spec2Model ----------------------------
(***************************************************************************)
(* Model of the LLM quiz challenge pipeline (validate -> answer ->         *)
(* evaluate) of sk-classroom/starter:                                      *)
(*   - src/grading/llm_quiz/core.py            LLMQuizChallenge ("core")   *)
(*   - src/grading-toolkit/llm_quiz_grading.py stand-alone script          *)
(*                                             ("script")                  *)
(*   - src/grading-toolkit/llm_quiz/quiz_runner.py QuizRunner ("runner")   *)
(*     with src/grading/llm_quiz/validator.py and llm_client.py.           *)
(*                                                                         *)
(* Text is modelled as a sequence of one-character strings, so that the    *)
(* Python string operations the parsers use (split, startswith, replace,   *)
(* strip, upper, lower, in) are computed as the code computes them.        *)
(* Python's None is the one-element sequence None, which is no text.       *)
(***************************************************************************)
EXTENDS Integers, Sequences, FiniteSets, TLC

VARIABLES
    impl,               \* which orchestrator runs: "core", "script", "runner"
    questions,          \* the quiz: sequence of [question, answer]
    pc,                 \* position of the run: the blocking call it waits for
    i,                  \* index of the question being processed (1-based)
    correct_answer,     \* core/script local: reference answer in use
    llm_answer,         \* local: the answerer's answer to question i
    results,            \* the aggregate (core/script dict; runner locals, then QuizResults)
    calls,              \* history: the model calls issued, in order, with their outcome
    eval_ret,           \* history: last value returned by evaluate_llm_answer
    parse_in,           \* parser specification: the response handed to a parser
    parse_out,          \* what the last pure call returned (a parser, a report)
    last_results        \* challenge.py self.last_results: << >> for None, else <<QuizResults>>

vars == <<impl, questions, pc, i, correct_answer, llm_answer,
          results, calls, eval_ret, parse_in, parse_out, last_results>>

(***************************************************************************)
(* Bounds.                                                                 *)
(***************************************************************************)
MaxQuestions == 2
MaxLines == 2
MaxNotebookQuestions == 1

(***************************************************************************)
(* Characters and literals.                                                *)
(***************************************************************************)
None == <<"<None>">>
NL == "\n"
EmptyText == << >>
Whitespace == {" ", "\t", NL}
LowerLetters == <<"a","b","c","d","e","f","g","h","i","j","k","l","m",
                  "n","o","p","q","r","s","t","u","v","w","x","y","z">>
UpperLetters == <<"A","B","C","D","E","F","G","H","I","J","K","L","M",
                  "N","O","P","Q","R","S","T","U","V","W","X","Y","Z">>

pVALIDATION == <<"V","A","L","I","D","A","T","I","O","N",":">>
pISSUES == <<"I","S","S","U","E","S",":">>
pREASON == <<"R","E","A","S","O","N",":">>
pCONFIDENCE == <<"C","O","N","F","I","D","E","N","C","E",":">>
pVERDICT == <<"V","E","R","D","I","C","T",":">>
pEXPLANATION == <<"E","X","P","L","A","N","A","T","I","O","N",":">>
pSTUDENT_WINS == <<"S","T","U","D","E","N","T","_","W","I","N","S",":">>
wPASS == <<"P","A","S","S">>
wINCORRECT == <<"I","N","C","O","R","R","E","C","T">>
wCORRECT == <<"C","O","R","R","E","C","T">>
wTRUE == <<"T","R","U","E">>
wFALSE == <<"F","A","L","S","E">>
wFAIL == <<"F","A","I","L">>
wNone == <<"N","o","n","e">>
wnone == <<"n","o","n","e">>
wMEDIUM == <<"M","E","D","I","U","M">>
wLOW == <<"L","O","W">>
wHIGH == <<"H","I","G","H">>
wmedium == <<"m","e","d","i","u","m">>
wlow == <<"l","o","w">>
wtrue == <<"t","r","u","e">>
wfalse == <<"f","a","l","s","e">>
wnull == <<"n","u","l","l">>
kvalid == <<"v","a","l","i","d">>
kissues == <<"i","s","s","u","e","s">>
kreason == <<"r","e","a","s","o","n">>
kconfidence == <<"c","o","n","f","i","d","e","n","c","e">>
kverdict == <<"v","e","r","d","i","c","t">>
kstudent_wins == <<"s","t","u","d","e","n","t","_","w","i","n","s">>
kexplanation == <<"e","x","p","l","a","n","a","t","i","o","n">>
HEAVY_MATH == <<"h","e","a","v","y","_","m","a","t","h">>
PROMPT_INJECTION == <<"p","r","o","m","p","t","_","i","n","j","e","c","t","i","o","n">>
ANSWER_QUALITY == <<"a","n","s","w","e","r","_","q","u","a","l","i","t","y">>
CONTEXT_MISMATCH == <<"c","o","n","t","e","x","t","_","m","i","s","m","a","t","c","h">>
mHeavyMath == <<"h","e","a","v","y"," ","m","a","t","h">>
mMathematical == <<"m","a","t","h","e","m","a","t","i","c","a","l">>
mPromptInjection == <<"p","r","o","m","p","t"," ","i","n","j","e","c","t","i","o","n">>
mManipulation == <<"m","a","n","i","p","u","l","a","t","i","o","n">>
mAnswerQuality == <<"a","n","s","w","e","r"," ","q","u","a","l","i","t","y">>
mIncorrect == <<"i","n","c","o","r","r","e","c","t">>
mContext == <<"c","o","n","t","e","x","t">>
mMismatch == <<"m","i","s","m","a","t","c","h">>
tUnableValidate ==
    <<"U","n","a","b","l","e"," ","t","o"," ","v","a","l","i","d","a","t","e"," ","d","u","e",
      " ","t","o"," ","A","P","I"," ","i","s","s","u","e","s">>
tUnavailable ==
    <<"V","a","l","i","d","a","t","i","o","n"," ","s","y","s","t","e","m"," ","u","n","a","v",
      "a","i","l","a","b","l","e">>
tUnavailableColon ==
    <<"V","a","l","i","d","a","t","i","o","n"," ","s","y","s","t","e","m"," ","u","n","a","v",
      "a","i","l","a","b","l","e",":"," ">>
tNoReason == <<"N","o"," ","r","e","a","s","o","n"," ","p","r","o","v","i","d","e","d">>
tJsonFailed == <<"J","S","O","N"," ","p","a","r","s","i","n","g"," ","f","a","i","l","e","d",":"," ">>
tUnableEvaluate ==
    <<"U","n","a","b","l","e"," ","t","o"," ","e","v","a","l","u","a","t","e"," ","d","u","e",
      " ","t","o"," ","A","P","I"," ","i","s","s","u","e","s">>
tEvalUnavailable ==
    <<"E","v","a","l","u","a","t","i","o","n"," ","s","y","s","t","e","m"," ","u","n","a","v",
      "a","i","l","a","b","l","e">>
tNoResponse == <<"N","o"," ","r","e","s","p","o","n","s","e"," ","f","r","o","m"," ","L","L","M">>
tNoResponseErr ==
    <<"L","L","M"," ","d","i","d"," ","n","o","t"," ","p","r","o","v","i","d","e"," ","a"," ",
      "r","e","s","p","o","n","s","e">>
tRejected ==
    <<"Q","u","e","s","t","i","o","n"," ","r","e","j","e","c","t","e","d"," ","d","u","e"," ",
      "t","o"," ","v","a","l","i","d","a","t","i","o","n"," ","i","s","s","u","e","s">>
tValidationFailed ==
    <<"Q","u","e","s","t","i","o","n"," ","v","a","l","i","d","a","t","i","o","n"," ","f","a",
      "i","l","e","d",":"," ">>
tLlmFailed ==
    <<"L","L","M"," ","f","a","i","l","e","d"," ","t","o"," ","r","e","s","p","o","n","d"," ",
      "d","u","e"," ","t","o"," ","s","y","s","t","e","m"," ","i","s","s","u","e","s",":",
      " ">>
tSystemErrorColon == <<"S","y","s","t","e","m"," ","E","r","r","o","r",":"," ">>
tEvalFailed == <<"E","v","a","l","u","a","t","i","o","n"," ","f","a","i","l","e","d",":"," ">>
tSystemErrorNoResponse ==
    <<"S","y","s","t","e","m"," ","e","r","r","o","r"," ","-"," ","n","o"," ","r","e","s","p",
      "o","n","s","e">>
tSystemErrorPrefix == <<"S","y","s","t","e","m"," ","e","r","r","o","r",":"," ">>
tEvaluationError == <<"E","v","a","l","u","a","t","i","o","n"," ","e","r","r","o","r",":"," ">>
tEvaluationParsingError ==
    <<"E","v","a","l","u","a","t","i","o","n"," ","p","a","r","s","i","n","g"," ","e","r","r",
      "o","r",":"," ">>
tNoExplanation == <<"N","o"," ","e","x","p","l","a","n","a","t","i","o","n"," ","p","r","o","v","i","d","e",
      "d">>
\* str(e) of the JSONDecodeError for a text whose first character starts no JSON value
tExpectingValue ==
    <<"E","x","p","e","c","t","i","n","g"," ","v","a","l","u","e",":"," ","l","i","n","e"," ",
      "1"," ","c","o","l","u","m","n"," ","1"," ","(","c","h","a","r"," ","0",")">>
tConnectionError ==
    <<"C","o","n","n","e","c","t","i","o","n"," ","e","r","r","o","r",":"," ","t","i","m","e",
      "d"," ","o","u","t">>
tNoChoices ==
    <<"N","o"," ","c","h","o","i","c","e","s"," ","i","n"," ","A","P","I"," ","r","e","s","p",
      "o","n","s","e">>

\* core.py parse_question_and_answer: prefixes, markers and messages
pERROR == <<"E","R","R","O","R",":">>
pQUESTION_ == <<"Q","U","E","S","T","I","O","N","_">>
pANSWER_ == <<"A","N","S","W","E","R","_">>
wMISSING == <<"M","I","S","S","I","N","G">>
tUnableParse ==
    <<"U","n","a","b","l","e"," ","t","o"," ","p","a","r","s","e"," ","i","n","p","u","t",
      " ","d","u","e"," ","t","o"," ","A","P","I"," ","i","s","s","u","e","s">>
tFailedParse ==
    <<"F","a","i","l","e","d"," ","t","o"," ","p","a","r","s","e"," ","q","u","e","s","t",
      "i","o","n","s",":"," ">>

(***************************************************************************)
(* Python string operations.                                               *)
(***************************************************************************)
\* str.startswith(p)
StartsWith(s, p) == Len(p) <= Len(s) /\ SubSeq(s, 1, Len(p)) = p

\* p in s
Contains(s, p) == \E k \in 0..(Len(s) - Len(p)) : SubSeq(s, k + 1, k + Len(p)) = p

\* str.upper() / str.lower() on one character
UpperChar(c) ==
    IF \E k \in 1..26 : LowerLetters[k] = c
    THEN UpperLetters[CHOOSE k \in 1..26 : LowerLetters[k] = c]
    ELSE c

LowerChar(c) ==
    IF \E k \in 1..26 : UpperLetters[k] = c
    THEN LowerLetters[CHOOSE k \in 1..26 : UpperLetters[k] = c]
    ELSE c

Upper(s) == [k \in 1..Len(s) |-> UpperChar(s[k])]

Lower(s) == [k \in 1..Len(s) |-> LowerChar(s[k])]

\* str.lstrip(), str.rstrip(), str.strip()
RECURSIVE LStrip(_)
LStrip(s) == IF s # << >> /\ Head(s) \in Whitespace THEN LStrip(Tail(s)) ELSE s

RECURSIVE RStrip(_)
RStrip(s) ==
    IF s # << >> /\ s[Len(s)] \in Whitespace THEN RStrip(SubSeq(s, 1, Len(s) - 1)) ELSE s

Strip(s) == RStrip(LStrip(s))

\* str.replace(p, ''): every non-overlapping occurrence of p, left to right
RECURSIVE Remove(_, _)
Remove(s, p) ==
    IF s = << >> THEN << >>
    ELSE IF StartsWith(s, p) THEN Remove(SubSeq(s, Len(p) + 1, Len(s)), p)
    ELSE <<Head(s)>> \o Remove(Tail(s), p)

\* str.split('\n')
RECURSIVE Split(_)
Split(s) ==
    IF \E k \in 1..Len(s) : s[k] = NL
    THEN LET k == CHOOSE n \in 1..Len(s) : s[n] = NL /\ \A m \in 1..(n - 1) : s[m] # NL
         IN  <<SubSeq(s, 1, k - 1)>> \o Split(SubSeq(s, k + 1, Len(s)))
    ELSE <<s>>

\* a search that lets a later line starting with p override an earlier one
FirstLine_Last(lines, p) ==
    IF \E k \in 1..Len(lines) : StartsWith(lines[k], p)
    THEN lines[CHOOSE k \in 1..Len(lines) :
                   /\ StartsWith(lines[k], p)
                   /\ \A m \in (k + 1)..Len(lines) : ~StartsWith(lines[m], p)]
    ELSE None

\* a search for the first line that holds p anywhere
FirstLine_Containing(lines, p) ==
    IF \E k \in 1..Len(lines) : Contains(lines[k], p)
    THEN lines[CHOOSE k \in 1..Len(lines) :
                   /\ Contains(lines[k], p)
                   /\ \A m \in 1..(k - 1) : ~Contains(lines[m], p)]
    ELSE None

\* next((line for line in lines if line.startswith(p)), None)
FirstLine(lines, p) ==
    IF \E k \in 1..Len(lines) : StartsWith(lines[k], p)
    THEN lines[CHOOSE k \in 1..Len(lines) :
                   /\ StartsWith(lines[k], p)
                   /\ \A m \in 1..(k - 1) : ~StartsWith(lines[m], p)]
    ELSE None

\* "\n".join(lines)
RECURSIVE Join(_)
Join(lines) ==
    IF lines = << >> THEN << >>
    ELSE IF Len(lines) = 1 THEN lines[1]
    ELSE lines[1] \o <<NL>> \o Join(Tail(lines))

\* Python truthiness of an Optional[str]: None and '' are falsy
Falsy(s) == s = None \/ s = EmptyText

(***************************************************************************)
(* Transport.  A chat-completion call ends in an outcome of the endpoint:  *)
(* [ok |-> FALSE, ...] for every transport failure (auth, not-found,       *)
(* rate-limit, network, timeout, malformed body, no choices), or           *)
(* [ok |-> TRUE, content |-> text] carrying the assistant's message.       *)
(***************************************************************************)
TransportFailure(err) == [ok |-> FALSE, content |-> EmptyText, error |-> err]

TransportReply(text) == [ok |-> TRUE, content |-> text, error |-> None]

\* core.py call_llm: the stripped message content, or None on any failure
call_llm(outcome) == IF outcome.ok THEN Strip(outcome.content) ELSE None

\* llm_client.py LLMClient.chat / _parse_response: always an LLMResponse
chat(outcome) ==
    IF outcome.ok
    THEN [content |-> Strip(outcome.content), success |-> TRUE, error |-> None]
    ELSE [content |-> EmptyText, success |-> FALSE, error |-> outcome.error]

(***************************************************************************)
(* Free-text parsers of core.py (the stand-alone script holds the same     *)
(* code, llm_quiz_grading.py:493-535 and 572-644).                         *)
(***************************************************************************)
\* core.py validate_question, from the value call_llm returned
validate_question(validation) ==
    IF Falsy(validation)
    THEN [valid |-> FALSE,
          issues |-> <<tUnableValidate>>,
          reason |-> tUnavailable,
          raw_validation |-> None]
    ELSE LET lines == Split(validation)
             validation_line == FirstLine(lines, pVALIDATION)
             issues_line == FirstLine(lines, pISSUES)
             reason_line == FirstLine(lines, pREASON)
             is_valid ==
                 IF ~Falsy(validation_line)
                 THEN Contains(Upper(Strip(Remove(validation_line, pVALIDATION))), wPASS)
                 ELSE TRUE
             issues_text == Strip(Remove(issues_line, pISSUES))
             issues ==
                 IF ~Falsy(issues_line) /\ Lower(issues_text) # wnone
                 THEN <<issues_text>>
                 ELSE << >>
             reason ==
                 IF ~Falsy(reason_line)
                 THEN Strip(Remove(reason_line, pREASON))
                 ELSE validation
         IN  [valid |-> is_valid,
              issues |-> issues,
              reason |-> reason,
              raw_validation |-> validation]

\* a verdict rule that tests for CORRECT first
ParseVerdict_CorrectFirst(verdict_text) ==
    IF Contains(verdict_text, wCORRECT) THEN "CORRECT"
    ELSE IF Contains(verdict_text, wINCORRECT) THEN "INCORRECT"
    ELSE "INCORRECT"

\* the verdict chosen from the text of the VERDICT: line (core.py 597-605)
ParseVerdict(verdict_text) ==
    IF Contains(verdict_text, wINCORRECT) THEN "INCORRECT"
    ELSE IF Contains(verdict_text, wCORRECT) THEN "CORRECT"
    ELSE "INCORRECT"

\* an evaluation parser whose verdict defaults to CORRECT
evaluate_llm_answer_DefaultCorrect(evaluation) ==
    IF Falsy(evaluation)
    THEN [success |-> FALSE,
          verdict |-> "ERROR",
          explanation |-> tUnableEvaluate,
          confidence |-> wLOW,
          student_wins |-> FALSE,
          error |-> tEvalUnavailable,
          raw_evaluation |-> None]
    ELSE LET lines == Split(evaluation)
             verdict_line == FirstLine(lines, pVERDICT)
             explanation_line == FirstLine(lines, pEXPLANATION)
             confidence_line == FirstLine(lines, pCONFIDENCE)
             student_wins_line == FirstLine(lines, pSTUDENT_WINS)
             verdict ==
                 IF ~Falsy(verdict_line)
                 THEN ParseVerdict(Upper(Strip(Remove(verdict_line, pVERDICT))))
                 ELSE "CORRECT"
             explanation ==
                 IF ~Falsy(explanation_line)
                 THEN Strip(Remove(explanation_line, pEXPLANATION))
                 ELSE evaluation
             confidence ==
                 IF ~Falsy(confidence_line)
                 THEN Upper(Strip(Remove(confidence_line, pCONFIDENCE)))
                 ELSE wMEDIUM
             student_wins ==
                 IF ~Falsy(student_wins_line)
                 THEN Contains(Upper(Strip(Remove(student_wins_line, pSTUDENT_WINS))), wTRUE)
                 ELSE verdict = "INCORRECT"
         IN  [success |-> TRUE,
              verdict |-> verdict,
              explanation |-> explanation,
              confidence |-> confidence,
              student_wins |-> student_wins,
              error |-> None,
              raw_evaluation |-> evaluation]

\* an evaluation parser that lets FALSE on the STUDENT_WINS: line decide
evaluate_llm_answer_FalseDecides(evaluation) ==
    IF Falsy(evaluation)
    THEN [success |-> FALSE,
          verdict |-> "ERROR",
          explanation |-> tUnableEvaluate,
          confidence |-> wLOW,
          student_wins |-> FALSE,
          error |-> tEvalUnavailable,
          raw_evaluation |-> None]
    ELSE LET lines == Split(evaluation)
             verdict_line == FirstLine(lines, pVERDICT)
             explanation_line == FirstLine(lines, pEXPLANATION)
             confidence_line == FirstLine(lines, pCONFIDENCE)
             student_wins_line == FirstLine(lines, pSTUDENT_WINS)
             verdict ==
                 IF ~Falsy(verdict_line)
                 THEN ParseVerdict(Upper(Strip(Remove(verdict_line, pVERDICT))))
                 ELSE "INCORRECT"
             explanation ==
                 IF ~Falsy(explanation_line)
                 THEN Strip(Remove(explanation_line, pEXPLANATION))
                 ELSE evaluation
             confidence ==
                 IF ~Falsy(confidence_line)
                 THEN Upper(Strip(Remove(confidence_line, pCONFIDENCE)))
                 ELSE wMEDIUM
             student_wins ==
                 IF ~Falsy(student_wins_line)
                 THEN LET text == Upper(Strip(Remove(student_wins_line, pSTUDENT_WINS)))
                      IN  Contains(text, wTRUE) /\ ~Contains(text, wFALSE)
                 ELSE verdict = "INCORRECT"
         IN  [success |-> TRUE,
              verdict |-> verdict,
              explanation |-> explanation,
              confidence |-> confidence,
              student_wins |-> student_wins,
              error |-> None,
              raw_evaluation |-> evaluation]

\* core.py evaluate_llm_answer, from the value call_llm returned
evaluate_llm_answer(evaluation) ==
    IF Falsy(evaluation)
    THEN [success |-> FALSE,
          verdict |-> "ERROR",
          explanation |-> tUnableEvaluate,
          confidence |-> wLOW,
          student_wins |-> FALSE,
          error |-> tEvalUnavailable,
          raw_evaluation |-> None]
    ELSE LET lines == Split(evaluation)
             verdict_line == FirstLine(lines, pVERDICT)
             explanation_line == FirstLine(lines, pEXPLANATION)
             confidence_line == FirstLine(lines, pCONFIDENCE)
             student_wins_line == FirstLine(lines, pSTUDENT_WINS)
             verdict ==
                 IF ~Falsy(verdict_line)
                 THEN ParseVerdict(Upper(Strip(Remove(verdict_line, pVERDICT))))
                 ELSE "INCORRECT"
             explanation ==
                 IF ~Falsy(explanation_line)
                 THEN Strip(Remove(explanation_line, pEXPLANATION))
                 ELSE evaluation
             confidence ==
                 IF ~Falsy(confidence_line)
                 THEN Upper(Strip(Remove(confidence_line, pCONFIDENCE)))
                 ELSE wMEDIUM
             student_wins ==
                 IF ~Falsy(student_wins_line)
                 THEN Contains(Upper(Strip(Remove(student_wins_line, pSTUDENT_WINS))), wTRUE)
                 ELSE verdict = "INCORRECT"
         IN  [success |-> TRUE,
              verdict |-> verdict,
              explanation |-> explanation,
              confidence |-> confidence,
              student_wins |-> student_wins,
              error |-> None,
              raw_evaluation |-> evaluation]

(***************************************************************************)
(* Free-text parser of validator.py.                                       *)
(***************************************************************************)
\* the issue list mapped from the lower-cased ISSUES: text (validator.py 380-389)
MapIssues(issues_text) ==
    (IF Contains(issues_text, mHeavyMath) \/ Contains(issues_text, mMathematical)
     THEN <<HEAVY_MATH>> ELSE << >>)
    \o (IF Contains(issues_text, mPromptInjection) \/ Contains(issues_text, mManipulation)
        THEN <<PROMPT_INJECTION>> ELSE << >>)
    \o (IF Contains(issues_text, mAnswerQuality) \/ Contains(issues_text, mIncorrect)
        THEN <<ANSWER_QUALITY>> ELSE << >>)
    \o (IF Contains(issues_text, mContext) \/ Contains(issues_text, mMismatch)
        THEN <<CONTEXT_MISMATCH>> ELSE << >>)

\* validator.py QuestionValidator._parse_validation_response(response: str)
_parse_validation_response(response) ==
    LET lines == Split(response)
        validation_line == FirstLine(lines, pVALIDATION)
        issues_line == FirstLine(lines, pISSUES)
        reason_line == FirstLine(lines, pREASON)
        confidence_line == FirstLine(lines, pCONFIDENCE)
        is_valid ==
            IF ~Falsy(validation_line)
            THEN Contains(Upper(Strip(Remove(validation_line, pVALIDATION))), wPASS)
            ELSE TRUE
        issues_text == Lower(Strip(Remove(issues_line, pISSUES)))
        issues ==
            IF ~Falsy(issues_line) /\ issues_text # wnone
            THEN MapIssues(issues_text)
            ELSE << >>
        reason ==
            IF ~Falsy(reason_line)
            THEN Strip(Remove(reason_line, pREASON))
            ELSE response
        confidence ==
            IF ~Falsy(confidence_line)
            THEN Lower(Strip(Remove(confidence_line, pCONFIDENCE)))
            ELSE wmedium
    IN  [valid |-> is_valid,
         issues |-> issues,
         reason |-> reason,
         confidence |-> confidence,
         raw_validation |-> response]

(***************************************************************************)
(* json.loads, on the JSON subset the responses of the model are drawn     *)
(* from: objects and arrays (arrays hold atoms, objects hold atoms and     *)
(* arrays), strings without escapes, true, false, null and non-negative    *)
(* integers.  Every other text is a JSONDecodeError.  A Python value is    *)
(* [t |-> its type, v |-> its content]; a dict is its sequence of          *)
(* <<key, value>> pairs in document order.                                 *)
(***************************************************************************)
JBool(b) == [t |-> "bool", v |-> b]
JNull == [t |-> "null", v |-> << >>]
JStr(s) == [t |-> "str", v |-> s]
JNum(d) == [t |-> "num", v |-> d]
JList(xs) == [t |-> "list", v |-> xs]
JDict(ps) == [t |-> "dict", v |-> ps]
JSONDecodeError == [t |-> "JSONDecodeError", v |-> << >>]
LexError == [t |-> "err", v |-> << >>]
Punct(c) == [t |-> "p", v |-> c]
Digits == {"0","1","2","3","4","5","6","7","8","9"}
IsAtom(tok) == tok.t \in {"bool", "null", "str", "num"}
IsP(tok, c) == tok.t = "p" /\ tok.v = c

\* length of the longest prefix of s made of digits
RECURSIVE DigitRun(_)
DigitRun(s) == IF s # << >> /\ Head(s) \in Digits THEN 1 + DigitRun(Tail(s)) ELSE 0

\* the scanner of json.loads
RECURSIVE Lex(_)
Lex(s) ==
    IF s = << >> THEN << >>
    ELSE LET c == Head(s) IN
         IF c \in Whitespace THEN Lex(Tail(s))
         ELSE IF c \in {"{", "}", "[", "]", ":", ","} THEN <<Punct(c)>> \o Lex(Tail(s))
         ELSE IF c = "\""
         THEN IF \E k \in 2..Len(s) : s[k] = "\""
              THEN LET k == CHOOSE n \in 2..Len(s) :
                                s[n] = "\"" /\ \A m \in 2..(n - 1) : s[m] # "\""
                       body == SubSeq(s, 2, k - 1)
                   IN  IF \E m \in 1..Len(body) : body[m] \in {NL, "\t", "\\"}
                       THEN <<LexError>>
                       ELSE <<JStr(body)>> \o Lex(SubSeq(s, k + 1, Len(s)))
              ELSE <<LexError>>
         ELSE IF StartsWith(s, wtrue) THEN <<JBool(TRUE)>> \o Lex(SubSeq(s, 5, Len(s)))
         ELSE IF StartsWith(s, wfalse) THEN <<JBool(FALSE)>> \o Lex(SubSeq(s, 6, Len(s)))
         ELSE IF StartsWith(s, wnull) THEN <<JNull>> \o Lex(SubSeq(s, 5, Len(s)))
         ELSE IF c \in Digits
         THEN LET n == DigitRun(s) IN
              IF n > 1 /\ c = "0" THEN <<LexError>>
              ELSE <<JNum(SubSeq(s, 1, n))>> \o Lex(SubSeq(s, n + 1, Len(s)))
         ELSE <<LexError>>

\* the array made of the tokens between [ and ], or JSONDecodeError
ParseArray(toks) ==
    LET n == Len(toks) IN
    IF n = 0 THEN JList(<< >>)
    ELSE IF /\ n % 2 = 1
            /\ \A k \in 1..n : IF k % 2 = 1 THEN IsAtom(toks[k]) ELSE IsP(toks[k], ",")
    THEN JList([k \in 1..((n + 1) \div 2) |-> toks[2 * k - 1]])
    ELSE JSONDecodeError

\* the members of an object from the tokens between { and }: [ok, v]
RECURSIVE ParseMembers(_)
ParseMembers(toks) ==
    LET n == Len(toks)
        bad == [ok |-> FALSE, v |-> << >>]
    IN
    IF n < 3 \/ toks[1].t # "str" \/ ~IsP(toks[2], ":") THEN bad
    ELSE LET close ==
                 IF IsP(toks[3], "[") /\ \E k \in 4..n : IsP(toks[k], "]")
                 THEN CHOOSE k \in 4..n :
                          IsP(toks[k], "]") /\ \A m \in 4..(k - 1) : ~IsP(toks[m], "]")
                 ELSE 3
             value ==
                 IF IsAtom(toks[3]) THEN toks[3]
                 ELSE IF close > 3 THEN ParseArray(SubSeq(toks, 4, close - 1))
                 ELSE JSONDecodeError
             rest == SubSeq(toks, close + 1, n)
         IN  IF value.t = "JSONDecodeError" THEN bad
             ELSE IF rest = << >> THEN [ok |-> TRUE, v |-> <<<<toks[1].v, value>>>>]
             ELSE IF IsP(rest[1], ",")
             THEN LET more == ParseMembers(Tail(rest)) IN
                  IF more.ok
                  THEN [ok |-> TRUE, v |-> <<<<toks[1].v, value>>>> \o more.v]
                  ELSE bad
             ELSE bad

\* json.loads(text)
json_loads(text) ==
    LET toks == Lex(text)
        n == Len(toks)
    IN
    IF n = 0 \/ \E k \in 1..n : toks[k].t = "err" THEN JSONDecodeError
    ELSE IF n = 1 THEN (IF IsAtom(toks[1]) THEN toks[1] ELSE JSONDecodeError)
    ELSE IF IsP(toks[1], "[") /\ IsP(toks[n], "]") THEN ParseArray(SubSeq(toks, 2, n - 1))
    ELSE IF IsP(toks[1], "{") /\ IsP(toks[n], "}")
    THEN IF n = 2 THEN JDict(<< >>)
         ELSE LET ms == ParseMembers(SubSeq(toks, 2, n - 1)) IN
              IF ms.ok THEN JDict(ms.v) ELSE JSONDecodeError
    ELSE JSONDecodeError

\* dict.get(key, default): the last member with that key wins in json.loads
JGet(d, key, default) ==
    LET hits == {k \in 1..Len(d.v) : d.v[k][1] = key} IN
    IF hits = {} THEN default
    ELSE d.v[CHOOSE k \in hits : \A m \in hits : m <= k][2]

\* Python truthiness of a decoded value
Truthy(x) ==
    CASE x.t = "bool" -> x.v
      [] x.t = "null" -> FALSE
      [] x.t = "num" -> \E k \in 1..Len(x.v) : x.v[k] # "0"
      [] OTHER -> x.v # << >>

\* the result of an operation that may raise: exc is "none" or the exception
Returned(val) == [exc |-> "none", val |-> val]
Raised(e) == [exc |-> e, val |-> << >>]

(***************************************************************************)
(* Structured validator of validator.py.                                   *)
(***************************************************************************)
ValidationIssueValues == {HEAVY_MATH, PROMPT_INJECTION, ANSWER_QUALITY, CONTEXT_MISMATCH}

\* a structured parser that lets the question through when the response is not JSON
_parse_validation_json_response_DecodeFailOpen(response) ==
    Returned([valid |-> JBool(json_loads(response) = JSONDecodeError),
              issues |-> << >>,
              reason |-> JStr(tJsonFailed \o response),
              confidence |-> wlow,
              raw_validation |-> response])

\* validator.py QuestionValidator._parse_validation_json_response(response: str)
_parse_validation_json_response(response) ==
    LET data == json_loads(response) IN
    IF data.t = "JSONDecodeError"
    THEN Returned([valid |-> JBool(FALSE),
                   issues |-> << >>,
                   reason |-> JStr(tJsonFailed \o response),
                   confidence |-> wlow,
                   raw_validation |-> response])
    ELSE IF data.t # "dict" THEN Raised("AttributeError")
    ELSE LET is_valid == JGet(data, kvalid, JBool(FALSE))
             issues_strings == JGet(data, kissues, JList(<< >>))
             reason == JGet(data, kreason, JStr(tNoReason))
             confidence == JGet(data, kconfidence, JStr(wMEDIUM))
             \* for issue_str in issues_strings: a str iterates its characters
             items ==
                 IF issues_strings.t = "list" THEN issues_strings.v
                 ELSE [k \in 1..Len(issues_strings.v) |-> JStr(<<issues_strings.v[k]>>)]
             kept == SelectSeq(items,
                         LAMBDA x : x.t = "str" /\ x.v \in ValidationIssueValues)
         IN  IF issues_strings.t \notin {"list", "str"} THEN Raised("TypeError")
             ELSE IF confidence.t # "str" THEN Raised("AttributeError")
             ELSE Returned([valid |-> is_valid,
                            issues |-> [k \in 1..Len(kept) |-> kept[k].v],
                            reason |-> reason,
                            confidence |-> Lower(confidence.v),
                            raw_validation |-> response])

\* a validator that lets the question through when its request fails
QuestionValidator_validate_question_FailOpen(outcome) ==
    LET response == chat(outcome) IN
    IF ~response.success
    THEN Returned([valid |-> JBool(TRUE),
                   issues |-> << >>,
                   reason |-> JStr(tUnavailableColon \o response.error),
                   confidence |-> wmedium,
                   raw_validation |-> response.error])
    ELSE _parse_validation_json_response(response.content)

\* validator.py QuestionValidator.validate_question, from the transport outcome
QuestionValidator_validate_question(outcome) ==
    LET response == chat(outcome) IN
    IF ~response.success
    THEN Returned([valid |-> JBool(FALSE),
                   issues |-> << >>,
                   reason |-> JStr(tUnavailableColon \o response.error),
                   confidence |-> wmedium,
                   raw_validation |-> response.error])
    ELSE _parse_validation_json_response(response.content)

(***************************************************************************)
(* Responses of the model under test and of the evaluator model, drawn     *)
(* from bounded sets: texts of at most MaxLines lines over ReplyLines, and *)
(* JSON documents over the fields of the two response schemas.             *)
(***************************************************************************)
SP == <<" ">>
tBad == <<"b","a","d">>
tOk == <<"o","k">>
tAns == <<"a","n","s">>

ReplyLines ==
    { pVALIDATION \o SP \o wPASS,
      pVALIDATION \o SP \o wFAIL,
      pVALIDATION,
      Lower(pVALIDATION) \o SP \o wPASS,
      pREASON \o SP \o tBad,
      pREASON,
      pISSUES \o SP \o wNone,
      pISSUES \o SP \o mHeavyMath,
      pCONFIDENCE \o SP \o wHIGH,
      pVERDICT \o SP \o wINCORRECT,
      pVERDICT \o SP \o wCORRECT,
      pVERDICT \o SP \o Lower(wINCORRECT),
      pVERDICT \o SP \o <<"I","N">> \o pVERDICT \o wCORRECT,
      pVERDICT \o SP \o <<"?">>,
      pEXPLANATION \o SP \o wINCORRECT,
      pSTUDENT_WINS \o SP \o wTRUE,
      pSTUDENT_WINS \o SP \o wFALSE,
      pSTUDENT_WINS \o SP \o wFALSE \o <<" ","(">> \o wTRUE \o <<")">>,
      pSTUDENT_WINS \o SP \o <<"T","R">> \o pSTUDENT_WINS \o <<"U","E">>,
      SP \o pVERDICT \o SP \o wCORRECT,
      tOk,
      EmptyText }

ReplyTexts ==
    UNION { { Join(ls) : ls \in [1..n -> ReplyLines] } : n \in 0..MaxLines }

\* JSON source text
Quoted(s) == <<"\"">> \o s \o <<"\"">>
Member(k, v) == Quoted(k) \o <<":">> \o SP \o v

RECURSIVE JoinComma(_)
JoinComma(ms) ==
    IF ms = << >> THEN << >>
    ELSE IF Len(ms) = 1 THEN ms[1]
    ELSE ms[1] \o <<",">> \o SP \o JoinComma(Tail(ms))

Object(ms) == <<"{">> \o JoinComma(ms) \o <<"}">>

\* a member of an object, or nothing when the field is left out
Opt(k, v) == IF v = None THEN << >> ELSE <<Member(k, v)>>

ValidTexts == {None, wtrue, wfalse, wnull, Quoted(<<"n","o">>)}
IssuesTexts == {None, <<"[","]">>, <<"[">> \o Quoted(HEAVY_MATH) \o <<"]">>,
                <<"[">> \o Quoted(tBad) \o <<",">> \o Quoted(ANSWER_QUALITY) \o <<"]">>,
                wnull, Quoted(HEAVY_MATH)}
ReasonTexts == {None, Quoted(EmptyText), Quoted(tBad), wnull}
ConfidenceTexts == {None, Quoted(wHIGH), wnull}
VerdictTexts == {None, Quoted(wCORRECT), Quoted(wINCORRECT), wnull}
StudentWinsTexts == {None, wtrue, wfalse, wnull, Quoted(<<"n","o">>)}
ExplanationTexts == {None, Quoted(tOk)}

ValidationJsonTexts ==
    { Object(Opt(kvalid, a) \o Opt(kissues, b) \o Opt(kreason, c) \o Opt(kconfidence, d)) :
        a \in ValidTexts, b \in IssuesTexts, c \in ReasonTexts, d \in ConfidenceTexts }

EvaluationJsonTexts ==
    { Object(Opt(kverdict, a) \o Opt(kstudent_wins, b) \o Opt(kexplanation, c)
             \o Opt(kconfidence, d)) :
        a \in VerdictTexts, b \in StudentWinsTexts, c \in ExplanationTexts,
        d \in {None, Quoted(wLOW)} }

OtherJsonTexts ==
    { <<"[","]">>, <<"1">>, <<"0">>, wnull, wtrue, Quoted(tOk), <<"{">>,
      Object(<<Member(kvalid, wtrue)>>) \o tOk,
      Object(<<Member(kvalid, wfalse), Member(kvalid, wtrue)>>) }

ParseInputs ==
    {TransportFailure(tConnectionError)}
    \cup { TransportReply(t) : t \in ReplyTexts \cup ValidationJsonTexts
                                   \cup EvaluationJsonTexts \cup OtherJsonTexts }

(***************************************************************************)
(* Specification of the parsers: one response is drawn, one parser is      *)
(* applied to it.                                                          *)
(***************************************************************************)
NotApplied == [fn |-> "none", res |-> << >>]

RunVars == <<impl, questions, pc, i, correct_answer, llm_answer, results, calls, eval_ret>>

ParseInit ==
    /\ parse_in \in ParseInputs
    /\ parse_out = NotApplied
    /\ impl = "none"
    /\ questions = << >>
    /\ pc = "idle"
    /\ i = 0
    /\ correct_answer = None
    /\ llm_answer = None
    /\ results = None
    /\ calls = << >>
    /\ eval_ret = << >>
    /\ last_results = << >>

Apply(fn, res) ==
    /\ parse_out = NotApplied
    /\ parse_out' = [fn |-> fn, res |-> res]
    /\ UNCHANGED <<parse_in, RunVars, last_results>>

ApplyValidateQuestion == Apply("validate_question", validate_question(call_llm(parse_in)))

ApplyEvaluateLlmAnswer == Apply("evaluate_llm_answer", evaluate_llm_answer(call_llm(parse_in)))

ApplyParseValidationResponse ==
    /\ parse_in.ok
    /\ Apply("_parse_validation_response", _parse_validation_response(parse_in.content))

ApplyValidatorValidateQuestion ==
    Apply("QuestionValidator.validate_question", QuestionValidator_validate_question(parse_in))

ParseNext ==
    \/ ApplyValidateQuestion
    \/ ApplyEvaluateLlmAnswer
    \/ ApplyParseValidationResponse
    \/ ApplyValidatorValidateQuestion

SpecParse == ParseInit /\ [][ParseNext]_vars

(***************************************************************************)
(* The request to the answerer model: the arguments the run loops hand to  *)
(* the chat call for one quiz entry. A second specification draws a quiz   *)
(* entry and a loaded context and builds the request of each orchestrator. *)
(***************************************************************************)
sContextHead ==
    <<"Y", "o", "u", " ", "a", "r", "e", " ", "a", " ", "s", "t", "u", "d", "e", "n", "t",
      " ", "t", "a", "k", "i", "n", "g", " ", "a", " ", "q", "u", "i", "z", ".", " ", "Y",
      "o", "u", " ", "h", "a", "v", "e", " ", "b", "e", "e", "n", " ", "p", "r", "o", "v",
      "i", "d", "e", "d", " ", "w", "i", "t", "h", " ", "c", "o", "n", "t", "e", "x", "t",
      " ", "m", "a", "t", "e", "r", "i", "a", "l", "s", " ", "b", "e", "l", "o", "w", ".",
      " ", "U", "s", "e", " ", "t", "h", "i", "s", " ", "c", "o", "n", "t", "e", "n", "t",
      " ", "t", "o", " ", "a", "n", "s", "w", "e", "r", " ", "q", "u", "e", "s", "t", "i",
      "o", "n", "s", " ", "a", "c", "c", "u", "r", "a", "t", "e", "l", "y", ".", NL, NL>>
sContextTail ==
    <<NL, NL, "I", "n", "s", "t", "r", "u", "c", "t", "i", "o", "n", "s", ":", NL, "-",
      " ", "A", "n", "s", "w", "e", "r", " ", "q", "u", "e", "s", "t", "i", "o", "n", "s",
      " ", "b", "a", "s", "e", "d", " ", "o", "n", " ", "t", "h", "e", " ", "c", "o", "n",
      "t", "e", "x", "t", " ", "m", "a", "t", "e", "r", "i", "a", "l", "s", " ", "p", "r",
      "o", "v", "i", "d", "e", "d", " ", "a", "b", "o", "v", "e", NL, "-", " ", "B", "e",
      " ", "c", "o", "n", "c", "i", "s", "e", " ", "b", "u", "t", " ", "t", "h", "o", "r",
      "o", "u", "g", "h", " ", "i", "n", " ", "y", "o", "u", "r", " ", "e", "x", "p", "l",
      "a", "n", "a", "t", "i", "o", "n", "s", ".", " ", "N", "o", " ", "m", "o", "r", "e",
      " ", "t", "h", "a", "n", " ", "3", "0", "0", " ", "w", "o", "r", "d", "s", ".", NL,
      "-", " ", "U", "s", "e", " ", "t", "h", "e", " ", "c", "o", "n", "c", "e", "p", "t",
      "s", " ", "a", "n", "d", " ", "t", "e", "r", "m", "i", "n", "o", "l", "o", "g", "y",
      " ", "f", "r", "o", "m", " ", "t", "h", "e", " ", "p", "r", "o", "v", "i", "d", "e",
      "d", " ", "m", "a", "t", "e", "r", "i", "a", "l", "s", NL, "-", " ", "I", "f", " ",
      "y", "o", "u", "'", "r", "e", " ", "u", "n", "s", "u", "r", "e", " ", "a", "b", "o",
      "u", "t", " ", "s", "o", "m", "e", "t", "h", "i", "n", "g", ",", " ", "r", "e", "f",
      "e", "r", " ", "b", "a", "c", "k", " ", "t", "o", " ", "t", "h", "e", " ", "p", "r",
      "o", "v", "i", "d", "e", "d", " ", "c", "o", "n", "t", "e", "n", "t", NL, "-", " ",
      "D", "o", " ", "n", "o", "t", " ", "a", "s", "k", " ", "f", "o", "r", " ", "c", "l",
      "a", "r", "i", "f", "i", "c", "a", "t", "i", "o", "n", " ", "-", " ", "p", "r", "o",
      "v", "i", "d", "e", " ", "y", "o", "u", "r", " ", "b", "e", "s", "t", " ", "a", "n",
      "s", "w", "e", "r", " ", "b", "a", "s", "e", "d", " ", "o", "n", " ", "t", "h", "e",
      " ", "i", "n", "f", "o", "r", "m", "a", "t", "i", "o", "n", " ", "a", "v", "a", "i",
      "l", "a", "b", "l", "e">>
sNoContext ==
    <<"Y", "o", "u", " ", "a", "r", "e", " ", "a", " ", "s", "t", "u", "d", "e", "n", "t",
      " ", "t", "a", "k", "i", "n", "g", " ", "a", " ", "q", "u", "i", "z", ".", " ", "A",
      "n", "s", "w", "e", "r", " ", "t", "h", "e", " ", "q", "u", "e", "s", "t", "i", "o",
      "n", "s", " ", "t", "o", " ", "t", "h", "e", " ", "b", "e", "s", "t", " ", "o", "f",
      " ", "y", "o", "u", "r", " ", "a", "b", "i", "l", "i", "t", "y", ".", " ", "B", "e",
      " ", "c", "o", "n", "c", "i", "s", "e", " ", "b", "u", "t", " ", "t", "h", "o", "r",
      "o", "u", "g", "h", " ", "i", "n", " ", "y", "o", "u", "r", " ", "e", "x", "p", "l",
      "a", "n", "a", "t", "i", "o", "n", "s", ".", " ", "D", "o", " ", "n", "o", "t", " ",
      "a", "s", "k", " ", "f", "o", "r", " ", "c", "l", "a", "r", "i", "f", "i", "c", "a",
      "t", "i", "o", "n", " ", "-", " ", "p", "r", "o", "v", "i", "d", "e", " ", "y", "o",
      "u", "r", " ", "b", "e", "s", "t", " ", "a", "n", "s", "w", "e", "r", ".">>
sModuleHead ==
    <<"Y", "o", "u", " ", "a", "r", "e", " ", "a", " ", "s", "t", "u", "d", "e", "n", "t",
      " ", "t", "a", "k", "i", "n", "g", " ", "a", " ", "n", "e", "t", "w", "o", "r", "k",
      " ", "s", "c", "i", "e", "n", "c", "e", " ", "q", "u", "i", "z", ".", " ", "Y", "o",
      "u", " ", "h", "a", "v", "e", " ", "b", "e", "e", "n", " ", "p", "r", "o", "v", "i",
      "d", "e", "d", " ", "w", "i", "t", "h", " ", "t", "h", "e", " ", "m", "o", "d", "u",
      "l", "e", " ", "c", "o", "n", "t", "e", "n", "t", " ", "b", "e", "l", "o", "w", ".",
      " ", "U", "s", "e", " ", "t", "h", "i", "s", " ", "c", "o", "n", "t", "e", "n", "t",
      " ", "t", "o", " ", "a", "n", "s", "w", "e", "r", " ", "q", "u", "e", "s", "t", "i",
      "o", "n", "s", " ", "a", "c", "c", "u", "r", "a", "t", "e", "l", "y", ".", NL, NL>>
sModuleTail ==
    <<NL, NL, "I", "n", "s", "t", "r", "u", "c", "t", "i", "o", "n", "s", ":", NL, "-",
      " ", "A", "n", "s", "w", "e", "r", " ", "q", "u", "e", "s", "t", "i", "o", "n", "s",
      " ", "b", "a", "s", "e", "d", " ", "o", "n", " ", "t", "h", "e", " ", "m", "o", "d",
      "u", "l", "e", " ", "c", "o", "n", "t", "e", "n", "t", " ", "p", "r", "o", "v", "i",
      "d", "e", "d", " ", "a", "b", "o", "v", "e", NL, "-", " ", "B", "e", " ", "c", "o",
      "n", "c", "i", "s", "e", " ", "b", "u", "t", " ", "t", "h", "o", "r", "o", "u", "g",
      "h", " ", "i", "n", " ", "y", "o", "u", "r", " ", "e", "x", "p", "l", "a", "n", "a",
      "t", "i", "o", "n", "s", ".", " ", "N", "o", " ", "m", "o", "r", "e", " ", "t", "h",
      "a", "n", " ", "3", "0", "0", " ", "w", "o", "r", "d", "s", ".", NL, "-", " ", "U",
      "s", "e", " ", "t", "h", "e", " ", "c", "o", "n", "c", "e", "p", "t", "s", " ", "a",
      "n", "d", " ", "t", "e", "r", "m", "i", "n", "o", "l", "o", "g", "y", " ", "f", "r",
      "o", "m", " ", "t", "h", "e", " ", "c", "o", "u", "r", "s", "e", " ", "m", "a", "t",
      "e", "r", "i", "a", "l", "s", NL, "-", " ", "I", "f", " ", "y", "o", "u", "'", "r",
      "e", " ", "u", "n", "s", "u", "r", "e", " ", "a", "b", "o", "u", "t", " ", "s", "o",
      "m", "e", "t", "h", "i", "n", "g", ",", " ", "r", "e", "f", "e", "r", " ", "b", "a",
      "c", "k", " ", "t", "o", " ", "t", "h", "e", " ", "p", "r", "o", "v", "i", "d", "e",
      "d", " ", "c", "o", "n", "t", "e", "n", "t", NL, "-", " ", "D", "o", " ", "n", "o",
      "t", " ", "a", "s", "k", " ", "f", "o", "r", " ", "c", "l", "a", "r", "i", "f", "i",
      "c", "a", "t", "i", "o", "n", " ", "-", " ", "p", "r", "o", "v", "i", "d", "e", " ",
      "y", "o", "u", "r", " ", "b", "e", "s", "t", " ", "a", "n", "s", "w", "e", "r", " ",
      "b", "a", "s", "e", "d", " ", "o", "n", " ", "t", "h", "e", " ", "i", "n", "f", "o",
      "r", "m", "a", "t", "i", "o", "n", " ", "a", "v", "a", "i", "l", "a", "b", "l", "e">>
sNoModule ==
    <<"Y", "o", "u", " ", "a", "r", "e", " ", "a", " ", "s", "t", "u", "d", "e", "n", "t",
      " ", "t", "a", "k", "i", "n", "g", " ", "a", " ", "n", "e", "t", "w", "o", "r", "k",
      " ", "s", "c", "i", "e", "n", "c", "e", " ", "q", "u", "i", "z", ".", " ", "A", "n",
      "s", "w", "e", "r", " ", "t", "h", "e", " ", "q", "u", "e", "s", "t", "i", "o", "n",
      "s", " ", "t", "o", " ", "t", "h", "e", " ", "b", "e", "s", "t", " ", "o", "f", " ",
      "y", "o", "u", "r", " ", "a", "b", "i", "l", "i", "t", "y", ".", " ", "B", "e", " ",
      "c", "o", "n", "c", "i", "s", "e", " ", "b", "u", "t", " ", "t", "h", "o", "r", "o",
      "u", "g", "h", " ", "i", "n", " ", "y", "o", "u", "r", " ", "e", "x", "p", "l", "a",
      "n", "a", "t", "i", "o", "n", "s", ".", " ", "D", "o", " ", "n", "o", "t", " ", "a",
      "s", "k", " ", "f", "o", "r", " ", "c", "l", "a", "r", "i", "f", "i", "c", "a", "t",
      "i", "o", "n", " ", "-", " ", "p", "r", "o", "v", "i", "d", "e", " ", "y", "o", "u",
      "r", " ", "b", "e", "s", "t", " ", "a", "n", "s", "w", "e", "r", ".">>
pQuestion ==
    <<"Q", "u", "e", "s", "t", "i", "o", "n", ":", " ">>
pPleaseAnswer ==
    <<NL, NL, "P", "l", "e", "a", "s", "e", " ", "p", "r", "o", "v", "i", "d", "e", " ",
      "y", "o", "u", "r", " ", "a", "n", "s", "w", "e", "r", ":">>

\* core.py send_question_to_quiz_llm (214-243): the arguments of call_llm;
\* quiz_model is the configured model name
core_answerer_request(question, context_content) ==
    [prompt |-> pQuestion \o question \o pPleaseAnswer,
     model |-> "quiz_model",
     temperature |-> "0.1",
     max_tokens |-> 500,
     system_message |-> IF ~Falsy(context_content)
                        THEN sContextHead \o context_content \o sContextTail
                        ELSE sNoContext]

\* llm_quiz_grading.py send_question_to_quiz_llm (211-240)
script_answerer_request(question, module_context) ==
    [prompt |-> pQuestion \o question \o pPleaseAnswer,
     model |-> "phi4:latest",
     temperature |-> "0.1",
     max_tokens |-> 500,
     system_message |-> IF ~Falsy(module_context)
                        THEN sModuleHead \o module_context \o sModuleTail
                        ELSE sNoModule]

\* quiz_runner.py _get_llm_answer (378-405): the arguments of simple_chat;
\* max_tokens is the runner's setting, 500 unless configured
_get_llm_answer(question, context_content) ==
    [prompt |-> pQuestion \o question \o pPleaseAnswer,
     model |-> "quiz_model",
     system_message |-> IF ~Falsy(context_content)
                        THEN sContextHead \o context_content \o sContextTail
                        ELSE sNoContext,
     temperature |-> "0.1",
     max_tokens |-> 500]

\* a call site that shows the answerer the reference answer as well
AskAnswerer_WithAnswer(orchestrator, question_data, context) ==
    core_answerer_request(question_data.question \o question_data.answer, context)

\* the call in the loop of each orchestrator for one quiz entry (core.py 660-661
\* and 711, llm_quiz_grading.py 663-664 and 714, quiz_runner.py 274)
AskAnswerer(orchestrator, question_data, context) ==
    LET question_text == question_data.question IN
    CASE orchestrator = "core"   -> core_answerer_request(question_text, context)
      [] orchestrator = "script" -> script_answerer_request(question_text, context)
      [] orchestrator = "runner" -> _get_llm_answer(question_text, context)

tCtx == <<"c","t","x">>

\* question texts (one of them is the text of a reference answer), reference
\* answers and loaded contexts
QuestionTexts == {EmptyText, <<"Q","1">>, <<"Q","2">>, tAns}
ReferenceAnswers == {EmptyText, tAns, tBad}
Contexts == {None, EmptyText, tCtx}

RequestInputs ==
    [question_data : [question : QuestionTexts, answer : ReferenceAnswers],
     context : Contexts]

RequestInit ==
    /\ parse_in \in RequestInputs
    /\ parse_out = NotApplied
    /\ impl = "none"
    /\ questions = << >>
    /\ pc = "idle"
    /\ i = 0
    /\ correct_answer = None
    /\ llm_answer = None
    /\ results = None
    /\ calls = << >>
    /\ eval_ret = << >>
    /\ last_results = << >>

CoreAsks == Apply("core", AskAnswerer("core", parse_in.question_data, parse_in.context))

ScriptAsks == Apply("script", AskAnswerer("script", parse_in.question_data, parse_in.context))

RunnerAsks == Apply("runner", AskAnswerer("runner", parse_in.question_data, parse_in.context))

RequestNext ==
    \/ CoreAsks
    \/ ScriptAsks
    \/ RunnerAsks

SpecRequest == RequestInit /\ [][RequestNext]_vars



(***************************************************************************)
(* The quiz and the outcomes of the calls of a run.                        *)
(***************************************************************************)
DigitChars == <<"1","2","3","4","5","6","7","8","9">>

\* a quiz: questions with a reference answer that may be empty
Quizzes ==
    UNION { { [k \in 1..n |-> [question |-> <<"Q">> \o <<DigitChars[k]>>, answer |-> f[k]]] :
                f \in [1..n -> {EmptyText, tAns}] } : n \in 0..MaxQuestions }

\* what the student types when asked for a missing answer
TypedAnswers == {EmptyText, SP, tAns \o SP}

Failures == {TransportFailure(tConnectionError)}

ValidatorOutcomes ==
    Failures \cup
    { TransportReply(t) : t \in
        { pVALIDATION \o SP \o wPASS,
          pVALIDATION \o SP \o wFAIL \o <<NL>> \o pREASON \o SP \o tBad,
          pVALIDATION \o SP \o wFAIL \o <<NL>> \o pREASON } }

AnswerOutcomes == Failures \cup { TransportReply(t) : t \in {tAns, EmptyText} }

EvaluatorOutcomes ==
    Failures \cup
    { TransportReply(t) : t \in
        { pVERDICT \o SP \o wINCORRECT,
          pVERDICT \o SP \o wCORRECT,
          pVERDICT \o SP \o wCORRECT \o <<NL>> \o pSTUDENT_WINS \o SP \o wTRUE,
          pVERDICT \o SP \o wINCORRECT \o <<NL>> \o pSTUDENT_WINS \o SP \o wFALSE } }

StructuredValidatorOutcomes ==
    Failures \cup
    { TransportReply(t) : t \in
        { Object(<<Member(kvalid, wtrue), Member(kissues, <<"[","]">>),
                   Member(kreason, Quoted(tOk)), Member(kconfidence, Quoted(wHIGH))>>),
          Object(<<Member(kvalid, wfalse), Member(kissues, <<"[">> \o Quoted(HEAVY_MATH) \o <<"]">>),
                   Member(kreason, Quoted(tBad)), Member(kconfidence, Quoted(wHIGH))>>),
          Object(<<Member(kvalid, wfalse), Member(kreason, Quoted(EmptyText))>>),
          Object(<< >>),
          tOk,
          <<"[","]">> } }

StructuredEvaluatorOutcomes ==
    Failures \cup
    { TransportReply(t) : t \in
        { Object(<<Member(kverdict, Quoted(wINCORRECT)), Member(kstudent_wins, wtrue),
                   Member(kexplanation, Quoted(tOk)), Member(kconfidence, Quoted(wHIGH))>>),
          Object(<<Member(kverdict, Quoted(wCORRECT)), Member(kstudent_wins, wfalse),
                   Member(kexplanation, Quoted(tOk)), Member(kconfidence, Quoted(wHIGH))>>),
          Object(<<Member(kverdict, Quoted(wCORRECT)), Member(kstudent_wins, wtrue)>>),
          Object(<<Member(kverdict, Quoted(wINCORRECT))>>),
          tOk,
          <<"[","]">> } }

\* the replies to the extraction request of parse_question_and_answer for raw
\* input that states the questions of `quiz`: a failed call, a refusal, the
\* questions in the requested format, and a QUESTION_ line without a colon
ExtractionLines(quiz) ==
    [k \in 1..(2 * Len(quiz)) |->
        IF k % 2 = 1
        THEN pQUESTION_ \o <<DigitChars[(k + 1) \div 2]>> \o <<":", " ">>
                 \o quiz[(k + 1) \div 2].question
        ELSE pANSWER_ \o <<DigitChars[k \div 2]>> \o <<":", " ">>
                 \o (IF quiz[k \div 2].answer = EmptyText THEN wMISSING
                     ELSE quiz[k \div 2].answer)]

ExtractionOutcomes(quiz) ==
    Failures \cup
    { TransportReply(pERROR \o SP \o tBad),
      TransportReply(IF quiz = << >> THEN tOk ELSE Join(ExtractionLines(quiz))),
      TransportReply(pQUESTION_ \o <<"1">>) }

(***************************************************************************)
(* student_success_rate: the float n / d, kept as the fraction in lowest   *)
(* terms (equal fractions are equal floats, and n / d >= 1.0 iff n >= d).  *)
(***************************************************************************)
RECURSIVE GCD(_, _)
GCD(a, b) == IF b = 0 THEN a ELSE GCD(b, a % b)

Ratio(n, d) == [num |-> n \div GCD(n, d), den |-> d \div GCD(n, d)]

Zero == [num |-> 0, den |-> 1]

AtLeastOne(r) == r.num >= r.den

(***************************************************************************)
(* core.py: LLMQuizChallenge.run_sequential_challenge.  An action is the   *)
(* code from one blocking call (input() or a chat completion) up to the    *)
(* next one; the code after the last call of the run, up to the return, is *)
(* part of the action of that call.                                        *)
(***************************************************************************)
\* core.py send_question_to_quiz_llm, from the transport outcome
send_question_to_quiz_llm(outcome) ==
    LET llm_response == call_llm(outcome) IN
    IF Falsy(llm_response)
    THEN [success |-> FALSE, answer |-> tNoResponse, error |-> tNoResponseErr]
    ELSE [success |-> TRUE, answer |-> Strip(llm_response), error |-> None]

\* a request_missing_answer that returns what was typed as it is
request_missing_answer_AsTyped(typed) == typed

\* core.py request_missing_answer, from what the student typed
request_missing_answer(typed) == Strip(typed)

\* the results dict run_sequential_challenge starts from (core.py 645-658)
CoreInitialResults ==
    [total_questions |-> Len(questions),
     valid_questions |-> 0,
     invalid_questions |-> 0,
     system_errors |-> 0,
     student_wins |-> 0,
     llm_wins |-> 0,
     question_results |-> << >>,
     validation_results |-> << >>,
     student_success_rate |-> Zero]

\* a pass decision that asks for some win instead of a full win rate
CorePasses_SomeWin(valid_questions, evaluated_questions, rate) ==
    valid_questions > 0 /\ evaluated_questions > 0 /\ rate.num > 0

\* the pass decision of core.py 777-779
CorePasses(valid_questions, evaluated_questions, rate) ==
    valid_questions > 0 /\ evaluated_questions > 0 /\ AtLeastOne(rate)

\* a finalisation that divides by the valid questions, system errors included
CoreFinalize_ByValid(res) ==
    LET rate == IF res.valid_questions > 0
                THEN Ratio(res.student_wins, res.valid_questions)
                ELSE Zero
        student_passes == CorePasses(res.valid_questions, res.student_wins + res.llm_wins, rate)
    IN  [res EXCEPT !.student_success_rate = rate]
        @@ [github_classroom_result |->
                IF student_passes THEN "STUDENTS_QUIZ_KEIKO_WIN" ELSE "STUDENTS_QUIZ_KEIKO_LOSE",
            student_passes |-> student_passes]

\* the end of run_sequential_challenge, after the loop (core.py 769-785)
CoreFinalize(res) ==
    LET evaluated_questions == res.student_wins + res.llm_wins
        rate == IF evaluated_questions > 0
                THEN Ratio(res.student_wins, evaluated_questions)
                ELSE Zero
        student_passes == CorePasses(res.valid_questions, evaluated_questions, rate)
    IN  [res EXCEPT !.student_success_rate = rate]
        @@ [github_classroom_result |->
                IF student_passes THEN "STUDENTS_QUIZ_KEIKO_WIN" ELSE "STUDENTS_QUIZ_KEIKO_LOSE",
            student_passes |-> student_passes]

\* the pass decision of llm_quiz_grading.py 761-762
ScriptPasses(valid_questions, rate) == valid_questions > 0 /\ AtLeastOne(rate)

\* the end of the script's run_sequential_challenge (llm_quiz_grading.py 756-769)
ScriptFinalize(res) ==
    LET rate == IF res.valid_questions > 0
                THEN Ratio(res.student_wins, res.valid_questions)
                ELSE res.student_success_rate
        student_passes == ScriptPasses(res.valid_questions, rate)
    IN  [res EXCEPT !.student_success_rate = rate]
        @@ [github_classroom_result |->
                IF student_passes THEN "STUDENTS_QUIZ_KEIKO_WIN" ELSE "STUDENTS_QUIZ_KEIKO_LOSE",
            student_passes |-> student_passes]

\* the end of run_sequential_challenge in the implementation that is running
Finalize(res) == IF impl = "script" THEN ScriptFinalize(res) ELSE CoreFinalize(res)

\* where the loop of run_sequential_challenge blocks first for question k
EntryPc(k) ==
    IF k > Len(questions) THEN "done"
    ELSE IF Falsy(questions[k].answer) THEN "request_missing_answer"
    ELSE "validate"

\* question i is finished with aggregate res: on to the next one, or return
Advance(res) ==
    /\ i' = i + 1
    /\ pc' = EntryPc(i + 1)
    /\ results' = IF i + 1 > Len(questions) THEN Finalize(res) ELSE res
    /\ correct_answer' = IF i + 1 > Len(questions) THEN None ELSE questions[i + 1].answer
    /\ llm_answer' = None

\* the record of a question that failed validation (core.py 689-704)
InvalidQuestionResult(validation) ==
    [question_number |-> i,
     question |-> questions[i].question,
     correct_answer |-> correct_answer,
     llm_answer |-> tRejected,
     evaluation |-> [verdict |-> "INVALID",
                     explanation |-> tValidationFailed \o validation.reason,
                     confidence |-> wHIGH,
                     error |-> TRUE,
                     student_wins |-> FALSE],
     validation |-> validation,
     student_wins |-> FALSE,
     winner |-> "Invalid Question"]

\* core.py 667-673 (the script holds the same code, llm_quiz_grading.py 670-676)
RequestMissingAnswer ==
    /\ pc = "request_missing_answer"
    /\ \E typed \in TypedAnswers :
         LET answer == request_missing_answer(typed) IN
         IF Falsy(answer)
         THEN Advance([results EXCEPT !.invalid_questions = @ + 1])
         ELSE /\ correct_answer' = answer
              /\ pc' = "validate"
              /\ UNCHANGED <<i, llm_answer, results>>
    /\ UNCHANGED <<impl, questions, calls, eval_ret, parse_in, parse_out, last_results>>

\* core.py 675-708 (the script holds the same code, llm_quiz_grading.py 678-711)
Validate ==
    /\ pc = "validate"
    /\ \E outcome \in ValidatorOutcomes :
         LET validation == validate_question(call_llm(outcome))
             logged == [results EXCEPT !.validation_results =
                            Append(@, [question_number |-> i,
                                       question |-> questions[i].question,
                                       validation |-> validation])]
         IN  /\ calls' = Append(calls, [kind |-> "validate", q |-> i, ok |-> outcome.ok,
                                  reply |-> outcome])
             /\ IF ~validation.valid
                THEN Advance([logged EXCEPT
                                 !.invalid_questions = @ + 1,
                                 !.question_results =
                                     Append(@, InvalidQuestionResult(validation))])
                ELSE /\ results' = [logged EXCEPT !.valid_questions = @ + 1]
                     /\ pc' = "answer"
                     /\ UNCHANGED <<i, correct_answer, llm_answer>>
    /\ UNCHANGED <<impl, questions, eval_ret, parse_in, parse_out, last_results>>

\* the evaluation that stands for a failed answerer call (core.py 716-724)
SystemErrorEvaluation(llm_response) ==
    [success |-> TRUE,
     verdict |-> "SYSTEM_ERROR",
     explanation |-> tLlmFailed \o llm_response.error,
     confidence |-> wHIGH,
     student_wins |-> FALSE,
     error |-> llm_response.error,
     raw_evaluation |-> tSystemErrorColon \o llm_response.error]

\* a handling of a failed evaluation that keeps what evaluate_llm_answer returned
DefaultEvaluation_Kept(evaluation) == evaluation

\* the evaluation that replaces a failed one (core.py 731-741)
DefaultEvaluation(evaluation) ==
    IF ~evaluation.success
    THEN [success |-> TRUE,
          verdict |-> "INCORRECT",
          explanation |-> tEvalFailed \o evaluation.error,
          confidence |-> wLOW,
          student_wins |-> FALSE,
          error |-> evaluation.error]
    ELSE evaluation

\* a winner rule that gives the question of a failed answerer call to the LLM
CoreWinner_NoSystemError(evaluation) ==
    IF evaluation.student_wins THEN "Student" ELSE "LLM"

\* who wins the question (core.py 743-753)
CoreWinner(evaluation) ==
    IF evaluation.verdict = "SYSTEM_ERROR" THEN "System Error"
    ELSE IF evaluation.student_wins THEN "Student"
    ELSE "LLM"

\* a collection that records a system error without counting it
CoreCollect_ErrorsUncounted(res, returned, answer) ==
    LET evaluation == DefaultEvaluation(returned)
        winner == CoreWinner(evaluation)
        counted ==
            CASE winner = "System Error" -> res
              [] winner = "Student" -> [res EXCEPT !.student_wins = @ + 1]
              [] OTHER -> [res EXCEPT !.llm_wins = @ + 1]
        question_result ==
            [question_number |-> i,
             question |-> questions[i].question,
             correct_answer |-> correct_answer,
             llm_answer |-> answer,
             evaluation |-> evaluation,
             validation |-> res.validation_results[Len(res.validation_results)].validation,
             student_wins |->
                 IF evaluation.verdict # "SYSTEM_ERROR" THEN evaluation.student_wins ELSE FALSE,
             winner |-> winner]
    IN  [counted EXCEPT !.question_results = Append(@, question_result)]

\* counts and records one answered question (core.py 731-767)
CoreCollect(res, returned, answer) ==
    LET evaluation == DefaultEvaluation(returned)
        winner == CoreWinner(evaluation)
        counted ==
            CASE winner = "System Error" -> [res EXCEPT !.system_errors = @ + 1]
              [] winner = "Student" -> [res EXCEPT !.student_wins = @ + 1]
              [] OTHER -> [res EXCEPT !.llm_wins = @ + 1]
        question_result ==
            [question_number |-> i,
             question |-> questions[i].question,
             correct_answer |-> correct_answer,
             llm_answer |-> answer,
             evaluation |-> evaluation,
             validation |-> res.validation_results[Len(res.validation_results)].validation,
             student_wins |->
                 IF evaluation.verdict # "SYSTEM_ERROR" THEN evaluation.student_wins ELSE FALSE,
             winner |-> winner]
    IN  [counted EXCEPT !.question_results = Append(@, question_result)]

\* run_sequential_challenge is called (core.py 642-660)
CoreStart ==
    /\ impl = "core"
    /\ pc = "idle"
    /\ Advance(CoreInitialResults)
    /\ UNCHANGED <<impl, questions, calls, eval_ret, parse_in, parse_out, last_results>>

CoreRequestMissingAnswer == impl = "core" /\ RequestMissingAnswer

CoreValidate == impl = "core" /\ Validate

\* core.py 710-727, and 731-767 when the answerer failed
CoreAnswer ==
    /\ impl = "core"
    /\ pc = "answer"
    /\ \E outcome \in AnswerOutcomes :
         LET llm_response == send_question_to_quiz_llm(outcome) IN
         /\ calls' = Append(calls, [kind |-> "answer", q |-> i, ok |-> outcome.ok,
                                  reply |-> outcome])
         /\ IF ~llm_response.success
            THEN Advance(CoreCollect(results, SystemErrorEvaluation(llm_response), tNoResponse))
            ELSE /\ llm_answer' = llm_response.answer
                 /\ pc' = "evaluate"
                 /\ UNCHANGED <<i, correct_answer, results>>
    /\ UNCHANGED <<impl, questions, eval_ret, parse_in, parse_out, last_results>>

\* core.py 728-767
CoreEvaluateOutcome(outcome) ==
    /\ impl = "core"
    /\ pc = "evaluate"
    /\ LET returned == evaluate_llm_answer(call_llm(outcome)) IN
       /\ calls' = Append(calls, [kind |-> "evaluate", q |-> i, ok |-> outcome.ok,
                                reply |-> outcome])
       /\ eval_ret' = <<returned>>
       /\ Advance(CoreCollect(results, returned, llm_answer))
    /\ UNCHANGED <<impl, questions, parse_in, parse_out, last_results>>

CoreEvaluate == \E outcome \in EvaluatorOutcomes : CoreEvaluateOutcome(outcome)


(***************************************************************************)
(* core.py: run_challenge_from_raw_input, for raw input in natural format  *)
(* (no [[questions]] table), whose questions an extraction call names.     *)
(***************************************************************************)
IndexError == <<"<IndexError>">>

\* line.split(':', 1)[1].strip(): the text after the first colon; IndexError
\* when the line has no colon
AfterColon(line) ==
    LET ks == {k \in 1..Len(line) : line[k] = ":"} IN
    IF ks = {} THEN IndexError
    ELSE Strip(SubSeq(line, (CHOOSE k \in ks : \A m \in ks : k <= m) + 1, Len(line)))

\* the entry parse_question_and_answer appends for a question (core.py 375-379)
ExtractedQuestion(current_question, current_answer) ==
    [question |-> current_question,
     answer |-> current_answer,
     has_answer |-> current_answer # wMISSING]

\* the loop of parse_question_and_answer over the lines of the response, and
\* what follows it (core.py 365-406)
RECURSIVE ExtractQuestions(_, _, _, _, _)
ExtractQuestions(lines, found, current_question, current_answer, response) ==
    LET saved == IF Falsy(current_question) THEN found
                 ELSE Append(found, ExtractedQuestion(current_question, current_answer))
        raised == [success |-> FALSE, error |-> tFailedParse \o response, questions |-> << >>]
    IN  IF lines = << >>
        THEN [success |-> TRUE, error |-> None, questions |-> saved]
        ELSE LET line == Strip(lines[1]) IN
             IF StartsWith(line, pERROR)
             THEN [success |-> FALSE, error |-> Strip(Remove(line, pERROR)), questions |-> << >>]
             ELSE IF StartsWith(line, pQUESTION_)
             THEN IF AfterColon(line) = IndexError THEN raised
                  ELSE ExtractQuestions(Tail(lines), saved, AfterColon(line), None, response)
             ELSE IF StartsWith(line, pANSWER_)
             THEN IF AfterColon(line) = IndexError THEN raised
                  ELSE ExtractQuestions(Tail(lines), found, current_question,
                                        AfterColon(line), response)
             ELSE ExtractQuestions(Tail(lines), found, current_question, current_answer,
                                   response)

\* core.py parse_question_and_answer, from what call_llm returned for the
\* extraction request
parse_question_and_answer(response) ==
    IF Falsy(response)
    THEN [success |-> FALSE, error |-> tUnableParse, questions |-> << >>]
    ELSE ExtractQuestions(Split(response), << >>, None, None, response)

\* the aggregate of the parse-failure branch (core.py 794-808)
RawInputFailure(error) ==
    [total_questions |-> 0,
     valid_questions |-> 0,
     invalid_questions |-> 0,
     student_wins |-> 0,
     llm_wins |-> 0,
     question_results |-> << >>,
     validation_results |-> << >>,
     student_success_rate |-> Zero,
     error |-> error]

\* the quiz built from the extracted questions (core.py 810-821)
RawInputQuiz(parse_result) ==
    [k \in 1..Len(parse_result.questions) |->
        [question |-> parse_result.questions[k].question,
         answer |-> IF parse_result.questions[k].has_answer
                    THEN parse_result.questions[k].answer
                    ELSE EmptyText]]

\* run_challenge_from_raw_input is called (core.py 787-824): the extraction
\* call, then either the parse-failure aggregate or run_sequential_challenge
CoreStartFromRawInput ==
    /\ impl = "core"
    /\ pc = "idle"
    /\ \E outcome \in ExtractionOutcomes(questions) :
         LET parse_result == parse_question_and_answer(call_llm(outcome)) IN
         IF ~parse_result.success
         THEN /\ pc' = "no_quiz"
              /\ results' = RawInputFailure(parse_result.error)
              /\ UNCHANGED <<questions, i, correct_answer, llm_answer>>
         ELSE /\ questions' = RawInputQuiz(parse_result)
              /\ questions' = questions
              /\ Advance(CoreInitialResults)
    /\ UNCHANGED <<impl, calls, eval_ret, parse_in, parse_out, last_results>>

(***************************************************************************)
(* llm_quiz_grading.py: the stand-alone script's run_sequential_challenge. *)
(* Its results dict has no system_errors key.                              *)
(***************************************************************************)
\* llm_quiz_grading.py 649-661
ScriptInitialResults ==
    [total_questions |-> Len(questions),
     valid_questions |-> 0,
     invalid_questions |-> 0,
     student_wins |-> 0,
     llm_wins |-> 0,
     question_results |-> << >>,
     validation_results |-> << >>,
     student_success_rate |-> Zero]

\* counts and records one answered question (llm_quiz_grading.py 725-754)
ScriptCollect(res, returned, answer) ==
    LET evaluation == DefaultEvaluation(returned)
        counted == IF evaluation.student_wins
                   THEN [res EXCEPT !.student_wins = @ + 1]
                   ELSE [res EXCEPT !.llm_wins = @ + 1]
        question_result ==
            [question_number |-> i,
             question |-> questions[i].question,
             correct_answer |-> correct_answer,
             llm_answer |-> answer,
             evaluation |-> evaluation,
             validation |-> res.validation_results[Len(res.validation_results)].validation,
             student_wins |-> evaluation.student_wins,
             winner |-> IF evaluation.student_wins THEN "Student" ELSE "LLM"]
    IN  [counted EXCEPT !.question_results = Append(@, question_result)]

\* llm_quiz_grading.py 646-663
ScriptStart ==
    /\ impl = "script"
    /\ pc = "idle"
    /\ Advance(ScriptInitialResults)
    /\ UNCHANGED <<impl, questions, calls, eval_ret, parse_in, parse_out, last_results>>

ScriptRequestMissingAnswer == impl = "script" /\ RequestMissingAnswer

ScriptValidate == impl = "script" /\ Validate

\* llm_quiz_grading.py 713-720: a failed answerer call only replaces the answer
ScriptAnswer ==
    /\ impl = "script"
    /\ pc = "answer"
    /\ \E outcome \in AnswerOutcomes :
         LET llm_response == send_question_to_quiz_llm(outcome) IN
         /\ calls' = Append(calls, [kind |-> "answer", q |-> i, ok |-> outcome.ok,
                                  reply |-> outcome])
         /\ llm_answer' = IF ~llm_response.success THEN tNoResponse ELSE llm_response.answer
    /\ pc' = "evaluate"
    /\ UNCHANGED <<impl, questions, i, correct_answer, results, eval_ret, parse_in, parse_out, last_results>>

\* llm_quiz_grading.py 722-754
ScriptEvaluate ==
    /\ impl = "script"
    /\ pc = "evaluate"
    /\ \E outcome \in EvaluatorOutcomes :
         LET returned == evaluate_llm_answer(call_llm(outcome)) IN
         /\ calls' = Append(calls, [kind |-> "evaluate", q |-> i, ok |-> outcome.ok,
                                  reply |-> outcome])
         /\ eval_ret' = <<returned>>
         /\ Advance(ScriptCollect(results, returned, llm_answer))
    /\ UNCHANGED <<impl, questions, parse_in, parse_out, last_results>>

(***************************************************************************)
(* quiz_runner.py: QuizRunner.run_quiz_challenge, with the structured      *)
(* validator of validator.py and the client of llm_client.py.  Values      *)
(* decoded from JSON keep their JSON type.                                 *)
(***************************************************************************)
\* the local counters and lists of run_quiz_challenge (quiz_runner.py 243-250)
RunnerInitialResults ==
    [valid_count |-> 0,
     student_wins |-> 0,
     llm_wins |-> 0,
     system_errors |-> 0,
     question_results |-> << >>,
     validation_results |-> << >>]

\* QuizResults.student_passes (quiz_runner.py 80-86)
student_passes(self) ==
    LET has_valid_questions == self.valid_questions > 0
        evaluated_questions == self.student_wins + self.llm_wins
        has_evaluated_questions == evaluated_questions > 0
    IN  has_valid_questions /\ has_evaluated_questions /\ AtLeastOne(self.student_success_rate)

\* validator.py get_validation_summary: the counts of the summary
get_validation_summary(validation_results) ==
    LET valid_count == Cardinality({k \in 1..Len(validation_results) :
                                       Truthy(validation_results[k].valid)})
    IN  [total_questions |-> Len(validation_results),
         valid_questions |-> valid_count,
         invalid_questions |-> Len(validation_results) - valid_count]

\* the QuizResults run_quiz_challenge returns (quiz_runner.py 356-376)
RunnerFinalize(res) ==
    LET evaluated_questions == res.student_wins + res.llm_wins
        success_rate == IF evaluated_questions > 0
                        THEN Ratio(res.student_wins, evaluated_questions)
                        ELSE Zero
    IN  [total_questions |-> Len(questions),
         valid_questions |-> res.valid_count,
         invalid_questions |-> Len(questions) - res.valid_count,
         system_errors |-> res.system_errors,
         student_wins |-> res.student_wins,
         llm_wins |-> res.llm_wins,
         student_success_rate |-> success_rate,
         question_results |-> res.question_results,
         validation_summary |-> get_validation_summary(res.validation_results)]

\* the questions the second loop does not skip, after question k (quiz_runner.py 265-271)
NextValid(res, k) ==
    {m \in (k + 1)..Len(questions) : Truthy(res.validation_results[m].valid)}

\* the second loop taken from the last question to the first
RunnerAdvance_LastFirst(res, k) ==
    LET rest == {m \in 1..(IF k = 0 THEN Len(questions) ELSE k - 1) :
                    Truthy(res.validation_results[m].valid)} IN
    IF rest = {}
    THEN /\ i' = Len(questions) + 1
         /\ pc' = "done"
         /\ results' = RunnerFinalize(res)
    ELSE /\ i' = CHOOSE m \in rest : \A n \in rest : m >= n
         /\ pc' = "answer"
         /\ results' = res

\* the second loop goes on after question k, or the run returns
RunnerAdvance(res, k) ==
    LET rest == NextValid(res, k) IN
    IF rest = {}
    THEN /\ i' = Len(questions) + 1
         /\ pc' = "done"
         /\ results' = RunnerFinalize(res)
    ELSE /\ i' = CHOOSE m \in rest : \A n \in rest : m <= n
         /\ pc' = "answer"
         /\ results' = res

\* a QuestionResult that leaves student_wins at false
QuestionResult_WinsDropped(res, answer, is_correct, wins, explanation, confidence, raw, error) ==
    [question |-> [question |-> questions[i].question,
                   answer |-> questions[i].answer,
                   number |-> i,
                   validation_result |-> res.validation_results[i]],
     llm_answer |-> answer,
     is_correct |-> is_correct,
     student_wins |-> JBool(FALSE),
     evaluation_explanation |-> explanation,
     evaluation_confidence |-> confidence,
     raw_evaluation |-> raw,
     error |-> error]

\* a QuestionResult (quiz_runner.py 50-60)
QuestionResult(res, answer, is_correct, wins, explanation, confidence, raw, error) ==
    [question |-> [question |-> questions[i].question,
                   answer |-> questions[i].answer,
                   number |-> i,
                   validation_result |-> res.validation_results[i]],
     llm_answer |-> answer,
     is_correct |-> is_correct,
     student_wins |-> wins,
     evaluation_explanation |-> explanation,
     evaluation_confidence |-> confidence,
     raw_evaluation |-> raw,
     error |-> error]

\* quiz_runner.py 230-250
RunnerStart ==
    /\ impl = "runner"
    /\ pc = "idle"
    /\ IF Len(questions) = 0
       THEN /\ RunnerAdvance(RunnerInitialResults, 0)
       ELSE /\ i' = 1
            /\ pc' = "validate"
            /\ results' = RunnerInitialResults
    /\ UNCHANGED <<impl, questions, correct_answer, llm_answer, calls, eval_ret,
                   parse_in, parse_out, last_results>>

\* one round of the first loop (quiz_runner.py 252-262); an exception of the
\* validator leaves run_quiz_challenge
RunnerValidate ==
    /\ impl = "runner"
    /\ pc = "validate"
    /\ \E outcome \in StructuredValidatorOutcomes :
         LET ret == QuestionValidator_validate_question(outcome) IN
         /\ calls' = Append(calls, [kind |-> "validate", q |-> i, ok |-> outcome.ok,
                                  reply |-> outcome])
         /\ IF ret.exc # "none"
            THEN /\ pc' = "raised"
                 /\ results' = [exception |-> ret.exc]
                 /\ UNCHANGED i
            ELSE LET validation_result == ret.val
                     res == [results EXCEPT
                                !.validation_results = Append(@, validation_result),
                                !.valid_count = IF Truthy(validation_result.valid)
                                                THEN @ + 1 ELSE @]
                 IN  IF i < Len(questions)
                     THEN /\ i' = i + 1
                          /\ pc' = "validate"
                          /\ results' = res
                     ELSE RunnerAdvance(res, 0)
    /\ UNCHANGED <<impl, questions, correct_answer, llm_answer, eval_ret, parse_in, parse_out, last_results>>

\* quiz_runner.py 273-290
RunnerAnswer ==
    /\ impl = "runner"
    /\ pc = "answer"
    /\ \E outcome \in AnswerOutcomes :
         LET llm_response == chat(outcome) IN
         /\ calls' = Append(calls, [kind |-> "answer", q |-> i, ok |-> outcome.ok,
                                  reply |-> outcome])
         /\ IF ~llm_response.success
            THEN /\ RunnerAdvance(
                        [results EXCEPT
                            !.system_errors = @ + 1,
                            !.question_results =
                                Append(@, QuestionResult(results, tSystemErrorNoResponse,
                                                         FALSE, JBool(FALSE),
                                                         JStr(tSystemErrorPrefix \o llm_response.error),
                                                         JStr(wHIGH), None, llm_response.error))],
                        i)
                 /\ llm_answer' = None
            ELSE /\ llm_answer' = llm_response.content
                 /\ pc' = "evaluate"
                 /\ UNCHANGED <<i, results>>
    /\ UNCHANGED <<impl, questions, correct_answer, eval_ret, parse_in, parse_out, last_results>>


\* quiz_runner.py 292-354; a decoded value that is not an object makes .get raise
RunnerEvaluate ==
    /\ impl = "runner"
    /\ pc = "evaluate"
    /\ \E outcome \in StructuredEvaluatorOutcomes :
         LET evaluation == chat(outcome)
             eval_data == json_loads(evaluation.content)
             verdict == JGet(eval_data, kverdict, JStr(wINCORRECT))
             question_student_wins == JGet(eval_data, kstudent_wins, JBool(FALSE))
             explanation == JGet(eval_data, kexplanation, JStr(tNoExplanation))
             confidence == JGet(eval_data, kconfidence, JStr(wMEDIUM))
             is_correct == verdict.t = "str" /\ verdict.v = wCORRECT
             failed(explained, error) ==
                 [results EXCEPT
                     !.system_errors = @ + 1,
                     !.question_results =
                         Append(@, QuestionResult(results, llm_answer, FALSE, JBool(FALSE),
                                                  JStr(explained), JStr(wLOW), None, error))]
             counted == IF Truthy(question_student_wins)
                        THEN [results EXCEPT !.student_wins = @ + 1]
                        ELSE [results EXCEPT !.llm_wins = @ + 1]
         IN
         /\ calls' = Append(calls, [kind |-> "evaluate", q |-> i, ok |-> outcome.ok,
                                  reply |-> outcome])
         /\ llm_answer' = None
         /\ IF ~evaluation.success
            THEN RunnerAdvance(failed(tEvaluationError \o evaluation.error, evaluation.error), i)
            ELSE IF eval_data = JSONDecodeError
            THEN RunnerAdvance(failed(tEvaluationParsingError \o evaluation.content,
                                      tJsonFailed \o tExpectingValue), i)
            ELSE IF eval_data.t # "dict"
            THEN /\ pc' = "raised"
                 /\ results' = [exception |-> "AttributeError"]
                 /\ UNCHANGED i
            ELSE RunnerAdvance(
                     [counted EXCEPT
                         !.question_results =
                             Append(@, QuestionResult(results, llm_answer, is_correct,
                                                      question_student_wins, explanation,
                                                      confidence, evaluation.content, None))],
                     i)
    /\ UNCHANGED <<impl, questions, correct_answer, eval_ret, parse_in, parse_out, last_results>>

(***************************************************************************)
(* What is made of a returned aggregate: the student feedback and the      *)
(* persisted results.                                                      *)
(***************************************************************************)
\* the characters of the two grading markers (core.py 781)
MarkerText(marker) ==
    IF marker = "STUDENTS_QUIZ_KEIKO_WIN"
    THEN <<"S","T","U","D","E","N","T","S","_","Q","U","I","Z","_","K","E","I","K","O","_",
           "W","I","N">>
    ELSE <<"S","T","U","D","E","N","T","S","_","Q","U","I","Z","_","K","E","I","K","O","_",
           "L","O","S","E">>

\* a feedback whose marker says WIN as soon as the student wins one question
generate_student_feedback_SomeWin(res) ==
    Returned(MarkerText(IF res.valid_questions > 0 /\ res.student_success_rate.num > 0
                        THEN "STUDENTS_QUIZ_KEIKO_WIN" ELSE "STUDENTS_QUIZ_KEIKO_LOSE"))

\* the first line of LLMQuizChallenge.generate_student_feedback (core.py 826-838,
\* llm_quiz_grading.py 810-822); core.py goes on to read results['system_errors']
\* (core.py 851), a KeyError when the aggregate has no such count
generate_student_feedback(res) ==
    LET has_valid_questions == res.valid_questions > 0
        passes == has_valid_questions /\ AtLeastOne(res.student_success_rate)
    IN  IF impl = "core" /\ "system_errors" \notin DOMAIN res
        THEN Raised("KeyError")
        ELSE Returned(MarkerText(IF passes THEN "STUDENTS_QUIZ_KEIKO_WIN"
                                 ELSE "STUDENTS_QUIZ_KEIKO_LOSE"))

\* the first line of ResultsAnalyzer.generate_student_feedback
\* (results_analyzer.py 43-65 and 343-351)
ResultsAnalyzer_generate_student_feedback(res) ==
    Returned(MarkerText(IF student_passes(res) THEN "STUDENTS_QUIZ_KEIKO_WIN"
                        ELSE "STUDENTS_QUIZ_KEIKO_LOSE"))

\* a save_results that writes each side's wins under the other side's key
QuizRunner_save_results_WinsSwapped(res) ==
    [total_questions |-> res.total_questions,
     valid_questions |-> res.valid_questions,
     invalid_questions |-> res.invalid_questions,
     system_errors |-> res.system_errors,
     student_wins |-> res.llm_wins,
     llm_wins |-> res.student_wins,
     student_success_rate |-> res.student_success_rate,
     student_passes |-> student_passes(res),
     github_classroom_result |->
         IF student_passes(res) THEN "STUDENTS_QUIZ_KEIKO_WIN" ELSE "STUDENTS_QUIZ_KEIKO_LOSE",
     question_results |->
         [k \in 1..Len(res.question_results) |->
             LET qr == res.question_results[k] IN
             [question_number |-> qr.question.number,
              question |-> qr.question.question,
              correct_answer |-> qr.question.answer,
              llm_answer |-> qr.llm_answer,
              is_correct |-> qr.is_correct,
              student_wins |-> qr.student_wins,
              evaluation_explanation |-> qr.evaluation_explanation,
              evaluation_confidence |-> qr.evaluation_confidence,
              validation |-> [valid |-> qr.question.validation_result.valid,
                              issues |-> qr.question.validation_result.issues,
                              reason |-> qr.question.validation_result.reason],
              error |-> qr.error]],
     validation_summary |-> res.validation_summary]

\* the dict QuizRunner.save_results writes (quiz_runner.py 450-481)
QuizRunner_save_results(res) ==
    [total_questions |-> res.total_questions,
     valid_questions |-> res.valid_questions,
     invalid_questions |-> res.invalid_questions,
     system_errors |-> res.system_errors,
     student_wins |-> res.student_wins,
     llm_wins |-> res.llm_wins,
     student_success_rate |-> res.student_success_rate,
     student_passes |-> student_passes(res),
     github_classroom_result |->
         IF student_passes(res) THEN "STUDENTS_QUIZ_KEIKO_WIN" ELSE "STUDENTS_QUIZ_KEIKO_LOSE",
     question_results |->
         [k \in 1..Len(res.question_results) |->
             LET qr == res.question_results[k] IN
             [question_number |-> qr.question.number,
              question |-> qr.question.question,
              correct_answer |-> qr.question.answer,
              llm_answer |-> qr.llm_answer,
              is_correct |-> qr.is_correct,
              student_wins |-> qr.student_wins,
              evaluation_explanation |-> qr.evaluation_explanation,
              evaluation_confidence |-> qr.evaluation_confidence,
              validation |-> [valid |-> qr.question.validation_result.valid,
                              issues |-> qr.question.validation_result.issues,
                              reason |-> qr.question.validation_result.reason],
              error |-> qr.error]],
     validation_summary |-> res.validation_summary]

\* the dict an entry point's aggregate is persisted as: LLMQuizChallenge.save_results
\* dumps the aggregate itself (core.py 985-993)
save_results(res) == IF impl = "runner" THEN QuizRunner_save_results(res) ELSE res

\* the student feedback made of an aggregate
Feedback(res) ==
    IF impl = "runner" THEN ResultsAnalyzer_generate_student_feedback(res)
    ELSE generate_student_feedback(res)

(***************************************************************************)
(* The persisted results: the JSON document json.dump writes with indent=2 *)
(* and the value json.load makes of such a document. A float is kept as    *)
(* the fraction it stands for.                                             *)
(***************************************************************************)
JFloat(r) == [t |-> "float", v |-> r]

DecimalDigits == <<"0","1","2","3","4","5","6","7","8","9">>

\* str(n) of an integer n >= 0
RECURSIVE IntText(_)
IntText(n) ==
    IF n < 10 THEN <<DecimalDigits[n + 1]>>
    ELSE IntText(n \div 10) \o <<DecimalDigits[(n % 10) + 1]>>

\* int(digits)
RECURSIVE IntOf(_)
IntOf(digits) ==
    IF digits = << >> THEN 0
    ELSE 10 * IntOf(SubSeq(digits, 1, Len(digits) - 1))
         + (CHOOSE d \in 0..9 : DecimalDigits[d + 1] = digits[Len(digits)])

JInt(n) == JNum(IntText(n))

\* the floats a success rate can be, up to four evaluated questions
Floats == {Ratio(n, d) : n \in 0..4, d \in 1..4}

\* float.__repr__ of a rate n / d
float_repr(r) ==
    CASE r = Ratio(0, 1) -> <<"0",".","0">>
      [] r = Ratio(1, 1) -> <<"1",".","0">>
      [] r = Ratio(1, 2) -> <<"0",".","5">>
      [] r = Ratio(1, 4) -> <<"0",".","2","5">>
      [] r = Ratio(3, 4) -> <<"0",".","7","5">>
      [] r = Ratio(1, 3) -> <<"0",".","3","3","3","3","3","3","3","3","3","3","3","3","3","3","3","3">>
      [] r = Ratio(2, 3) -> <<"0",".","6","6","6","6","6","6","6","6","6","6","6","6","6","6","6","6">>

\* float(text) of the text of such a float
float_of(text) == CHOOSE r \in {f \in Floats : f.num <= f.den} : float_repr(r) = text

\* one character inside a JSON string (ensure_ascii; the model's alphabet is ASCII)
EscapeChar(c) ==
    CASE c = "\"" -> <<"\\", "\"">>
      [] c = "\\" -> <<"\\", "\\">>
      [] c = NL   -> <<"\\", "n">>
      [] c = "\t" -> <<"\\", "t">>
      [] OTHER    -> <<c>>

\* the body of a JSON string: every character escaped, halves joined
RECURSIVE Escape(_)
Escape(s) ==
    IF s = << >> THEN << >>
    ELSE IF Len(s) = 1 THEN EscapeChar(s[1])
    ELSE LET half == Len(s) \div 2 IN
         Escape(SubSeq(s, 1, half)) \o Escape(SubSeq(s, half + 1, Len(s)))

Spaces(n) == [k \in 1..n |-> " "]

\* json.dumps(j, indent=2) at a nesting level; DumpItems writes the items of a
\* list or the members of a dict, one to a line
RECURSIVE json_dump(_, _)
RECURSIVE DumpItems(_, _, _)
json_dump(j, level) ==
    CASE j.t = "null"  -> wnull
      [] j.t = "bool"  -> IF j.v THEN wtrue ELSE wfalse
      [] j.t = "num"   -> j.v
      [] j.t = "float" -> float_repr(j.v)
      [] j.t = "str"   -> Quoted(Escape(j.v))
      [] j.t = "list"  ->
            IF j.v = << >> THEN <<"[", "]">>
            ELSE <<"[", NL>> \o DumpItems(j.v, level + 1, FALSE) \o <<NL>>
                     \o Spaces(2 * level) \o <<"]">>
      [] j.t = "dict"  ->
            IF j.v = << >> THEN <<"{", "}">>
            ELSE <<"{", NL>> \o DumpItems(j.v, level + 1, TRUE) \o <<NL>>
                     \o Spaces(2 * level) \o <<"}">>

DumpItems(items, level, keyed) ==
    LET first ==
            Spaces(2 * level)
            \o (IF keyed
                THEN Quoted(Escape(items[1][1])) \o <<":", " ">> \o json_dump(items[1][2], level)
                ELSE json_dump(items[1], level))
    IN  IF Len(items) = 1 THEN first
        ELSE first \o <<",", NL>> \o DumpItems(Tail(items), level, keyed)

\* the result of reading one value: the value and the index after it
Read(v, n) == [ok |-> TRUE, v |-> v, n |-> n]
NotRead == [ok |-> FALSE, v |-> JSONDecodeError, n |-> 0]

\* the first index from p on that holds no whitespace
SkipWs(s, p) ==
    CHOOSE k \in p..(Len(s) + 1) :
        /\ k > Len(s) \/ s[k] \notin Whitespace
        /\ \A m \in p..(k - 1) : s[m] \in Whitespace

StartsWithAt(s, p, w) == p + Len(w) - 1 <= Len(s) /\ SubSeq(s, p, p + Len(w) - 1) = w

\* the number of backslashes that stand right before index k, from p on
BackslashesBefore(s, p, k) ==
    Cardinality({n \in 1..(k - p) : \A m \in (k - n)..(k - 1) : s[m] = "\\"})

\* the character at k is the second character of an escape
Escaped(s, p, k) ==
    k > p /\ s[k - 1] = "\\" /\ BackslashesBefore(s, p, k) % 2 = 1

\* index of the quote that closes the string whose body starts at p, 0 if
\* there is none, or if a raw control character or an escape other than
\* \" \\ \n \t comes before it
StringEnd(s, p) ==
    LET Closes(e) == s[e] = "\"" /\ ~Escaped(s, p, e) IN
    IF ~\E e \in p..Len(s) : Closes(e) THEN 0
    ELSE LET end == CHOOSE e \in p..Len(s) :
                        Closes(e) /\ \A o \in p..(e - 1) : ~Closes(o) IN
         IF \A k \in p..(end - 1) :
                /\ s[k] \notin {NL, "\t"}
                /\ Escaped(s, p, k) => s[k] \in {"\"", "\\", "n", "t"}
         THEN end ELSE 0

\* the text of a string body: each escape replaced by its character
Unescape(s) ==
    LET Kept(k) == s[k] # "\\" \/ Escaped(s, 1, k)
        kept == SelectSeq([k \in 1..Len(s) |-> k], Kept)
    IN  [n \in 1..Len(kept) |->
            LET k == kept[n] IN
            IF Escaped(s, 1, k)
            THEN CASE s[k] = "n" -> NL [] s[k] = "t" -> "\t" [] OTHER -> s[k]
            ELSE s[k]]

ReadString(s, p) ==
    LET end == StringEnd(s, p + 1) IN
    IF end = 0 THEN NotRead ELSE Read(JStr(Unescape(SubSeq(s, p + 1, end - 1))), end + 1)

\* the first index from p on that holds neither a digit nor a point
NumberEnd(s, p) ==
    CHOOSE k \in p..(Len(s) + 1) :
        /\ k > Len(s) \/ s[k] \notin Digits \cup {"."}
        /\ \A m \in p..(k - 1) : s[m] \in Digits \cup {"."}

ReadNumber(s, p) ==
    LET end == NumberEnd(s, p)
        text == SubSeq(s, p, end - 1)
    IN  IF \E k \in 1..Len(text) : text[k] = "."
        THEN Read(JFloat(float_of(text)), end)
        ELSE Read(JNum(text), end)

\* json.loads from index p on: ReadValue one value, ReadItems the items of a
\* list up to ], ReadMembers the members of a dict up to }
RECURSIVE ReadValue(_, _)
RECURSIVE ReadItems(_, _, _)
RECURSIVE ReadMembers(_, _, _)
ReadValue(s, p0) ==
    LET p == SkipWs(s, p0) IN
    IF p > Len(s) THEN NotRead
    ELSE IF s[p] = "\"" THEN ReadString(s, p)
    ELSE IF s[p] \in Digits THEN ReadNumber(s, p)
    ELSE IF StartsWithAt(s, p, wtrue) THEN Read(JBool(TRUE), p + 4)
    ELSE IF StartsWithAt(s, p, wfalse) THEN Read(JBool(FALSE), p + 5)
    ELSE IF StartsWithAt(s, p, wnull) THEN Read(JNull, p + 4)
    ELSE IF s[p] = "["
    THEN LET q == SkipWs(s, p + 1) IN
         IF q <= Len(s) /\ s[q] = "]" THEN Read(JList(<< >>), q + 1)
         ELSE ReadItems(s, q, << >>)
    ELSE IF s[p] = "{"
    THEN LET q == SkipWs(s, p + 1) IN
         IF q <= Len(s) /\ s[q] = "}" THEN Read(JDict(<< >>), q + 1)
         ELSE ReadMembers(s, q, << >>)
    ELSE NotRead

ReadItems(s, p, items) ==
    LET item == ReadValue(s, p)
        q == SkipWs(s, item.n)
    IN  IF ~item.ok \/ q > Len(s) THEN NotRead
        ELSE IF s[q] = "]" THEN Read(JList(Append(items, item.v)), q + 1)
        ELSE IF s[q] = "," THEN ReadItems(s, q + 1, Append(items, item.v))
        ELSE NotRead

ReadMembers(s, p0, members) ==
    LET p == SkipWs(s, p0)
        key == IF p <= Len(s) /\ s[p] = "\"" THEN ReadString(s, p) ELSE NotRead
        colon == SkipWs(s, key.n)
        value == IF key.ok /\ colon <= Len(s) /\ s[colon] = ":"
                 THEN ReadValue(s, colon + 1) ELSE NotRead
        q == SkipWs(s, value.n)
        member == <<key.v.v, value.v>>
    IN  IF ~value.ok \/ q > Len(s) THEN NotRead
        ELSE IF s[q] = "}" THEN Read(JDict(Append(members, member)), q + 1)
        ELSE IF s[q] = "," THEN ReadMembers(s, q + 1, Append(members, member))
        ELSE NotRead

\* json.load of the written file
json_load(text) ==
    LET r == ReadValue(text, 1) IN
    IF r.ok /\ SkipWs(text, r.n) > Len(text) THEN r.v ELSE JSONDecodeError

\* the characters of a key or of a fixed string of the persisted results
Chars(name) ==
    CASE name = "total_questions" -> <<"t","o","t","a","l","_","q","u","e","s","t","i","o","n","s">>
      [] name = "valid_questions" -> <<"v","a","l","i","d","_","q","u","e","s","t","i","o","n","s">>
      [] name = "invalid_questions" -> <<"i","n","v","a","l","i","d","_","q","u","e","s","t","i","o","n","s">>
      [] name = "system_errors" -> <<"s","y","s","t","e","m","_","e","r","r","o","r","s">>
      [] name = "student_wins" -> <<"s","t","u","d","e","n","t","_","w","i","n","s">>
      [] name = "llm_wins" -> <<"l","l","m","_","w","i","n","s">>
      [] name = "question_results" -> <<"q","u","e","s","t","i","o","n","_","r","e","s","u","l","t","s">>
      [] name = "validation_results" -> <<"v","a","l","i","d","a","t","i","o","n","_","r","e","s","u","l","t","s">>
      [] name = "student_success_rate" -> <<"s","t","u","d","e","n","t","_","s","u","c","c","e","s","s","_","r","a","t","e">>
      [] name = "github_classroom_result" -> <<"g","i","t","h","u","b","_","c","l","a","s","s","r","o","o","m","_","r","e","s","u","l","t">>
      [] name = "student_passes" -> <<"s","t","u","d","e","n","t","_","p","a","s","s","e","s">>
      [] name = "error" -> <<"e","r","r","o","r">>
      [] name = "question_number" -> <<"q","u","e","s","t","i","o","n","_","n","u","m","b","e","r">>
      [] name = "question" -> <<"q","u","e","s","t","i","o","n">>
      [] name = "correct_answer" -> <<"c","o","r","r","e","c","t","_","a","n","s","w","e","r">>
      [] name = "llm_answer" -> <<"l","l","m","_","a","n","s","w","e","r">>
      [] name = "evaluation" -> <<"e","v","a","l","u","a","t","i","o","n">>
      [] name = "validation" -> <<"v","a","l","i","d","a","t","i","o","n">>
      [] name = "winner" -> <<"w","i","n","n","e","r">>
      [] name = "success" -> <<"s","u","c","c","e","s","s">>
      [] name = "verdict" -> <<"v","e","r","d","i","c","t">>
      [] name = "explanation" -> <<"e","x","p","l","a","n","a","t","i","o","n">>
      [] name = "confidence" -> <<"c","o","n","f","i","d","e","n","c","e">>
      [] name = "raw_evaluation" -> <<"r","a","w","_","e","v","a","l","u","a","t","i","o","n">>
      [] name = "valid" -> <<"v","a","l","i","d">>
      [] name = "issues" -> <<"i","s","s","u","e","s">>
      [] name = "reason" -> <<"r","e","a","s","o","n">>
      [] name = "raw_validation" -> <<"r","a","w","_","v","a","l","i","d","a","t","i","o","n">>
      [] name = "is_correct" -> <<"i","s","_","c","o","r","r","e","c","t">>
      [] name = "evaluation_explanation" -> <<"e","v","a","l","u","a","t","i","o","n","_","e","x","p","l","a","n","a","t","i","o","n">>
      [] name = "evaluation_confidence" -> <<"e","v","a","l","u","a","t","i","o","n","_","c","o","n","f","i","d","e","n","c","e">>
      [] name = "validation_summary" -> <<"v","a","l","i","d","a","t","i","o","n","_","s","u","m","m","a","r","y">>
      [] name = "INVALID" -> <<"I","N","V","A","L","I","D">>
      [] name = "SYSTEM_ERROR" -> <<"S","Y","S","T","E","M","_","E","R","R","O","R">>
      [] name = "INCORRECT" -> <<"I","N","C","O","R","R","E","C","T">>
      [] name = "CORRECT" -> <<"C","O","R","R","E","C","T">>
      [] name = "ERROR" -> <<"E","R","R","O","R">>
      [] name = "Student" -> <<"S","t","u","d","e","n","t">>
      [] name = "LLM" -> <<"L","L","M">>
      [] name = "System Error" -> <<"S","y","s","t","e","m"," ","E","r","r","o","r">>
      [] name = "Invalid Question" -> <<"I","n","v","a","l","i","d"," ","Q","u","e","s","t","i","o","n">>
      [] name = "STUDENTS_QUIZ_KEIKO_WIN" -> <<"S","T","U","D","E","N","T","S","_","Q","U","I","Z","_","K","E","I","K","O","_","W","I","N">>
      [] name = "STUDENTS_QUIZ_KEIKO_LOSE" -> <<"S","T","U","D","E","N","T","S","_","Q","U","I","Z","_","K","E","I","K","O","_","L","O","S","E">>

\* a member of a JSON object
Pair(key, value) == <<Chars(key), value>>

\* a str or None
JText(x) == IF x = None THEN JNull ELSE JStr(x)

JTexts(xs) == JList([k \in 1..Len(xs) |-> JStr(xs[k])])

\* the validation dict of validate_question (core.py 490-494, 516-521, 526-531)
ValidationDoc(validation) ==
    JDict(<<Pair("valid", JBool(validation.valid)),
            Pair("issues", JTexts(validation.issues)),
            Pair("reason", JStr(validation.reason))>>
          \o (IF validation.raw_validation = None THEN << >>
              ELSE <<Pair("raw_validation", JStr(validation.raw_validation))>>))

\* the evaluation dict of a question result: the one of a rejected question
\* (core.py 694-700), or the one made of the evaluator's reply or in its place
\* (core.py 621-629, 716-724, 734-741)
EvaluationDoc(evaluation, winner) ==
    IF winner = "Invalid Question"
    THEN JDict(<<Pair("verdict", JStr(Chars(evaluation.verdict))),
                 Pair("explanation", JStr(evaluation.explanation)),
                 Pair("confidence", JStr(evaluation.confidence)),
                 Pair("error", JBool(evaluation.error)),
                 Pair("student_wins", JBool(evaluation.student_wins))>>)
    ELSE JDict(<<Pair("success", JBool(evaluation.success)),
                 Pair("verdict", JStr(Chars(evaluation.verdict))),
                 Pair("explanation", JStr(evaluation.explanation)),
                 Pair("confidence", JStr(evaluation.confidence)),
                 Pair("student_wins", JBool(evaluation.student_wins)),
                 Pair("error", JText(evaluation.error))>>
               \o (IF "raw_evaluation" \in DOMAIN evaluation
                   THEN <<Pair("raw_evaluation", JText(evaluation.raw_evaluation))>>
                   ELSE << >>))

\* a question result of run_sequential_challenge (core.py 687-704, 756-765)
QuestionResultDoc(question_result) ==
    JDict(<<Pair("question_number", JInt(question_result.question_number)),
            Pair("question", JStr(question_result.question)),
            Pair("correct_answer", JStr(question_result.correct_answer)),
            Pair("llm_answer", JStr(question_result.llm_answer)),
            Pair("evaluation", EvaluationDoc(question_result.evaluation, question_result.winner)),
            Pair("validation", ValidationDoc(question_result.validation)),
            Pair("student_wins", JBool(question_result.student_wins)),
            Pair("winner", JStr(Chars(question_result.winner)))>>)

\* a validation result of run_sequential_challenge (core.py 677-681)
ValidationResultDoc(validation_result) ==
    JDict(<<Pair("question_number", JInt(validation_result.question_number)),
            Pair("question", JStr(validation_result.question)),
            Pair("validation", ValidationDoc(validation_result.validation))>>)

\* the dict of run_sequential_challenge or of the parse failure of
\* run_challenge_from_raw_input as json.dump sees it, its keys in the order
\* they were set (core.py 645-658, 781-782, 796-808); the script's dict has no
\* system_errors. The titles, the model names and pass_criteria, which are
\* settings, are left out.
CoreDoc(res) ==
    JDict(<<Pair("total_questions", JInt(res.total_questions)),
            Pair("valid_questions", JInt(res.valid_questions)),
            Pair("invalid_questions", JInt(res.invalid_questions))>>
          \o (IF "system_errors" \in DOMAIN res
              THEN <<Pair("system_errors", JInt(res.system_errors))>> ELSE << >>)
          \o <<Pair("student_wins", JInt(res.student_wins)),
               Pair("llm_wins", JInt(res.llm_wins)),
               Pair("question_results",
                    JList([k \in 1..Len(res.question_results) |->
                              QuestionResultDoc(res.question_results[k])])),
               Pair("validation_results",
                    JList([k \in 1..Len(res.validation_results) |->
                              ValidationResultDoc(res.validation_results[k])])),
               Pair("student_success_rate", JFloat(res.student_success_rate))>>
          \o (IF "error" \in DOMAIN res THEN <<Pair("error", JStr(res.error))>> ELSE << >>)
          \o (IF "student_passes" \in DOMAIN res
              THEN <<Pair("github_classroom_result", JStr(Chars(res.github_classroom_result))),
                     Pair("student_passes", JBool(res.student_passes))>>
              ELSE << >>))

\* results_dict of QuizRunner.save_results as json.dump sees it (quiz_runner.py
\* 451-483); values decoded from the models' JSON are written as they are. The
\* title and the model names are left out, and so are the rate, the issue
\* counts and the recommendations of the validation summary.
RunnerDoc(results_dict) ==
    JDict(<<Pair("total_questions", JInt(results_dict.total_questions)),
            Pair("valid_questions", JInt(results_dict.valid_questions)),
            Pair("invalid_questions", JInt(results_dict.invalid_questions)),
            Pair("system_errors", JInt(results_dict.system_errors)),
            Pair("student_wins", JInt(results_dict.student_wins)),
            Pair("llm_wins", JInt(results_dict.llm_wins)),
            Pair("student_success_rate", JFloat(results_dict.student_success_rate)),
            Pair("student_passes", JBool(results_dict.student_passes)),
            Pair("github_classroom_result", JStr(Chars(results_dict.github_classroom_result))),
            Pair("question_results",
                 JList([k \in 1..Len(results_dict.question_results) |->
                    LET qr == results_dict.question_results[k] IN
                    JDict(<<Pair("question_number", JInt(qr.question_number)),
                            Pair("question", JStr(qr.question)),
                            Pair("correct_answer", JStr(qr.correct_answer)),
                            Pair("llm_answer", JStr(qr.llm_answer)),
                            Pair("is_correct", JBool(qr.is_correct)),
                            Pair("student_wins", qr.student_wins),
                            Pair("evaluation_explanation", qr.evaluation_explanation),
                            Pair("evaluation_confidence", qr.evaluation_confidence),
                            Pair("validation",
                                 JDict(<<Pair("valid", qr.validation.valid),
                                         Pair("issues", JTexts(qr.validation.issues)),
                                         Pair("reason", qr.validation.reason)>>)),
                            Pair("error", JText(qr.error))>>)])),
            Pair("validation_summary",
                 JDict(<<Pair("total_questions", JInt(results_dict.validation_summary.total_questions)),
                         Pair("valid_questions", JInt(results_dict.validation_summary.valid_questions)),
                         Pair("invalid_questions",
                              JInt(results_dict.validation_summary.invalid_questions))>>))>>)

\* the text save_results writes to the output file (core.py 988-989,
\* quiz_runner.py 485-486)
written(res) ==
    json_dump(IF impl = "runner" THEN RunnerDoc(save_results(res)) ELSE CoreDoc(save_results(res)), 0)

(***************************************************************************)
(* The command-line entry points: main of llm_quiz_grading.py (the script) *)
(* and main of llm_quiz/cli.py (which drives the runner). The position     *)
(* "exit_<status>" is the process having exited with that status; an       *)
(* uncaught KeyboardInterrupt ends the interpreter on SIGINT.              *)
(***************************************************************************)
Running == {"request_missing_answer", "validate", "answer", "evaluate"}

ExitPc(status) ==
    CASE status = 0 -> "exit_0"
      [] status = 1 -> "exit_1"
      [] status = 2 -> "exit_2"
      [] OTHER      -> "exit_sigint"

\* sys.exit(status): the process is over, nothing else changes
sys_exit(status) ==
    /\ pc' = ExitPc(status)
    /\ UNCHANGED <<impl, questions, i, correct_answer, llm_answer, results, calls,
                   eval_ret, parse_in, parse_out, last_results>>

\* what keeps main of the script from starting a run (llm_quiz_grading.py 983-1047)
ScriptRefusals ==
    {"no_input_option", "both_input_options", "no_api_key", "quiz_file_missing",
     "input_cancelled", "no_input", "quiz_file_unreadable"}

\* the exit status main of the script gives each of them
script_main_refusal(refusal) ==
    CASE refusal \in {"no_input_option", "both_input_options"} -> 2   \* parser.error (985-989)
      [] refusal = "no_api_key"           -> 1                          \* 992-995
      [] refusal = "quiz_file_missing"    -> 1                          \* 998-1000
      [] refusal = "input_cancelled"      -> 0                          \* 1033-1035
      [] refusal = "no_input"             -> 1                          \* 1039-1042
      [] refusal = "quiz_file_unreadable" -> 1                          \* 1047, 1071-1073

\* results.get("student_passes", False) (llm_quiz_grading.py 1064)
script_main_status(res) ==
    IF "student_passes" \in DOMAIN res /\ res.student_passes THEN 0 ELSE 1

\* what keeps main of cli.py from starting a run (cli.py 31-48, 81-92, 159-161)
CliRefusals == {"no_required_argument", "quiz_file_missing", "no_api_key", "no_base_url"}

cli_main_refusal(refusal) ==
    IF refusal = "no_required_argument" THEN 2 ELSE 1

\* --exit-on-fail is a store_true flag whose default is True (cli.py 140-145)
exit_on_fail == TRUE

\* cli.py 201-206
cli_main_status(res) ==
    IF exit_on_fail /\ ~student_passes(res) THEN 1 ELSE 0

\* main of the script leaves before a run starts
ScriptMainRefuses ==
    /\ impl = "script"
    /\ pc = "idle"
    /\ \E refusal \in ScriptRefusals : sys_exit(script_main_refusal(refusal))

\* main of the script after run_sequential_challenge returned: the aggregate
\* is saved, the feedback printed (llm_quiz_grading.py 1054-1069)
ScriptMainExits ==
    /\ impl = "script"
    /\ pc = "done"
    /\ sys_exit(script_main_status(save_results(results)))

\* Ctrl-C while a call of the run blocks: except Exception (1071) lets it pass
ScriptMainInterrupted ==
    /\ impl = "script"
    /\ pc \in Running
    /\ sys_exit(130)

\* main of cli.py leaves before a run starts
CliMainRefuses ==
    /\ impl = "runner"
    /\ pc = "idle"
    /\ \E refusal \in CliRefusals : sys_exit(cli_main_refusal(refusal))

\* main of cli.py after run_quiz_from_file returned, or after an exception
\* left it (cli.py 190-206, 211-216)
CliMainExits ==
    /\ impl = "runner"
    /\ \/ pc = "done" /\ sys_exit(cli_main_status(results))
       \/ pc = "raised" /\ sys_exit(1)

\* Ctrl-C while a call of the run blocks (cli.py 208-210)
CliMainInterrupted ==
    /\ impl = "runner"
    /\ pc \in Running
    /\ sys_exit(1)

(***************************************************************************)
(* The runs of the three orchestrators.                                    *)
(***************************************************************************)
Init ==
    /\ impl \in {"core", "script", "runner"}
    /\ questions \in Quizzes
    /\ pc = "idle"
    /\ i = 0
    /\ correct_answer = None
    /\ llm_answer = None
    /\ results = None
    /\ calls = << >>
    /\ eval_ret = << >>
    /\ parse_in = TransportReply(EmptyText)
    /\ parse_out = NotApplied
    /\ last_results = << >>

Next ==
    \/ CoreStart
    \/ CoreStartFromRawInput
    \/ CoreRequestMissingAnswer
    \/ CoreValidate
    \/ CoreAnswer
    \/ CoreEvaluate
    \/ ScriptStart
    \/ ScriptRequestMissingAnswer
    \/ ScriptValidate
    \/ ScriptAnswer
    \/ ScriptEvaluate
    \/ RunnerStart
    \/ RunnerValidate
    \/ RunnerAnswer
    \/ RunnerEvaluate
    \/ ScriptMainRefuses
    \/ ScriptMainExits
    \/ ScriptMainInterrupted
    \/ CliMainRefuses
    \/ CliMainExits
    \/ CliMainInterrupted

Spec == Init /\ [][Next]_vars

\* the runs of the orchestrators alone, as a library caller starts them
RunNext ==
    \/ CoreStart
    \/ CoreStartFromRawInput
    \/ CoreRequestMissingAnswer
    \/ CoreValidate
    \/ CoreAnswer
    \/ CoreEvaluate
    \/ ScriptStart
    \/ ScriptRequestMissingAnswer
    \/ ScriptValidate
    \/ ScriptAnswer
    \/ ScriptEvaluate
    \/ RunnerStart
    \/ RunnerValidate
    \/ RunnerAnswer
    \/ RunnerEvaluate

SpecRuns == Init /\ [][RunNext]_vars

\* run_sequential_challenge of core.py with the evaluator free to answer in no
\* format at all: beside the responses above, responses without a verdict
\* line, without a STUDENT_WINS: line, or of white space only
UnformattedEvaluations ==
    { TransportReply(t) : t \in
        { tOk,
          pEXPLANATION \o SP \o wCORRECT,
          pCONFIDENCE \o SP \o wHIGH \o <<NL>> \o tOk,
          tOk \o SP \o pVERDICT \o SP \o wCORRECT,
          pSTUDENT_WINS \o SP \o wFALSE,
          SP \o <<NL>> } }

CoreEvaluateUnformatted ==
    \E outcome \in EvaluatorOutcomes \cup UnformattedEvaluations : CoreEvaluateOutcome(outcome)

CoreRepliesInit == Init /\ impl = "core"

CoreRepliesNext ==
    \/ CoreStart
    \/ CoreRequestMissingAnswer
    \/ CoreValidate
    \/ CoreAnswer
    \/ CoreEvaluateUnformatted

SpecCoreReplies == CoreRepliesInit /\ [][CoreRepliesNext]_vars

(***************************************************************************)
(* challenge.py: the notebook interface LLMQuizChallenge around QuizRunner. *)
(* pc = "notebook" between two calls on the object; a run entered with     *)
(* run_quiz_from_questions goes through the actions of run_quiz_challenge   *)
(* and its value is assigned to last_results when it returns.  parse_out    *)
(* holds what the last call on the object returned, printed, wrote or       *)
(* raised.                                                                  *)
(***************************************************************************)
\* the question lists handed to the interface: every question comes with its
\* reference answer, a text QuizRunner only hands on to the validator and the
\* evaluator
NotebookQuizzes ==
    {quiz \in Quizzes : /\ Len(quiz) <= MaxNotebookQuestions
                        /\ \A k \in 1..Len(quiz) : quiz[k].answer # EmptyText}

\* a QuizResults the caller holds and may pass explicitly: that of an empty quiz
HeldResults ==
    [total_questions |-> 0,
     valid_questions |-> 0,
     invalid_questions |-> 0,
     system_errors |-> 0,
     student_wins |-> 0,
     llm_wins |-> 0,
     student_success_rate |-> Zero,
     question_results |-> << >>,
     validation_summary |-> get_validation_summary(<< >>)]

\* the optional argument `results` of the reporting calls
ExplicitResults == {<< >>, <<HeldResults>>}

NoResultsMessage == "No quiz results available. Please run a quiz first."

\* if results is None: results = self.last_results
ResultsOrLast(arg) == IF arg = << >> THEN last_results ELSE arg

NotebookInit ==
    /\ impl = "runner"
    /\ questions = << >>
    /\ pc = "notebook"
    /\ i = 0
    /\ correct_answer = None
    /\ llm_answer = None
    /\ results = None
    /\ calls = << >>
    /\ eval_ret = << >>
    /\ parse_in = TransportReply(EmptyText)
    /\ parse_out = NotApplied
    /\ last_results = << >>

\* a call on the object is over
NotebookReturn(fn, res) ==
    /\ pc' = "notebook"
    /\ parse_out' = [fn |-> fn, res |-> res]

\* the locals and the call history of run_quiz_challenge end with the call
RunLocalsGone ==
    /\ i' = 0
    /\ results' = None
    /\ calls' = << >>
    /\ llm_answer' = None
    /\ eval_ret' = << >>

\* challenge.py 112-131: the QuizQuestion list is built and run_quiz_challenge
\* is called
run_quiz_from_questions ==
    /\ pc = "notebook"
    /\ \E quiz \in NotebookQuizzes : questions' = quiz
    /\ pc' = "idle"
    /\ RunLocalsGone
    /\ parse_out' = NotApplied
    /\ UNCHANGED <<impl, correct_answer, parse_in, last_results>>

\* challenge.py 132-133: run_quiz_challenge returned; its value is assigned
RunQuizReturns ==
    /\ impl = "runner"
    /\ pc = "done"
    /\ last_results' = <<results>>
    /\ NotebookReturn("run_quiz_from_questions", Returned(results))
    /\ RunLocalsGone
    /\ UNCHANGED <<impl, questions, correct_answer, parse_in>>

\* a run that forgets the last results when run_quiz_challenge raises
RunQuizRaises_ForgetsResults ==
    /\ impl = "runner"
    /\ pc = "raised"
    /\ NotebookReturn("run_quiz_from_questions", Raised(results.exception))
    /\ RunLocalsGone
    /\ last_results' = << >>
    /\ UNCHANGED <<impl, questions, correct_answer, parse_in>>

\* an exception of run_quiz_challenge leaves run_quiz_from_questions before
\* the assignment
RunQuizRaises ==
    /\ impl = "runner"
    /\ pc = "raised"
    /\ NotebookReturn("run_quiz_from_questions", Raised(results.exception))
    /\ RunLocalsGone
    /\ UNCHANGED <<impl, questions, correct_answer, parse_in, last_results>>

\* challenge.py 280-299 validate_questions_only: entry, and the return for an
\* empty list
ValidateQuestionsOnlyStart ==
    /\ pc = "notebook"
    /\ \E quiz \in Quizzes :
          /\ questions' = quiz
          /\ IF quiz = << >>
             THEN /\ NotebookReturn("validate_questions_only",
                                    Returned(get_validation_summary(<< >>)))
                  /\ i' = 0
             ELSE /\ pc' = "validate_only"
                  /\ i' = 1
                  /\ parse_out' = NotApplied
    /\ results' = [validation_results |-> << >>]
    /\ calls' = << >>
    /\ llm_answer' = None
    /\ eval_ret' = << >>
    /\ UNCHANGED <<impl, correct_answer, parse_in, last_results>>

\* one round of the loop of validate_questions_only (challenge.py 291-297), and
\* the summary after the last round (299)
ValidateQuestionsOnlyStep ==
    /\ pc = "validate_only"
    /\ \E outcome \in StructuredValidatorOutcomes :
         LET result == QuestionValidator_validate_question(outcome) IN
         /\ calls' = Append(calls, [kind |-> "validate", q |-> i, ok |-> outcome.ok,
                                  reply |-> outcome])
         /\ IF result.exc # "none"
            THEN /\ NotebookReturn("validate_questions_only", Raised(result.exc))
                 /\ UNCHANGED <<i, results>>
            ELSE /\ results' = [validation_results |->
                                   Append(results.validation_results, result.val)]
                 /\ IF i < Len(questions)
                    THEN /\ i' = i + 1
                         /\ UNCHANGED <<pc, parse_out>>
                    ELSE /\ NotebookReturn("validate_questions_only",
                                Returned(get_validation_summary(results'.validation_results)))
                         /\ UNCHANGED i
    /\ UNCHANGED <<impl, questions, correct_answer, llm_answer, eval_ret, parse_in,
                   last_results>>

\* a reporting call: it changes nothing but what it returns
Report(fn, res) ==
    /\ pc = "notebook"
    /\ NotebookReturn(fn, res)
    /\ UNCHANGED <<impl, questions, i, correct_answer, llm_answer, results, calls,
                   eval_ret, parse_in, last_results>>

\* challenge.py 135-150
get_student_feedback(arg) ==
    LET res == ResultsOrLast(arg) IN
    IF res = << >> THEN Returned(NoResultsMessage)
    ELSE ResultsAnalyzer_generate_student_feedback(res[1])

\* results_analyzer.py 353-360 _analyze_overall_performance: two of its entries
generate_instructor_summary(res) ==
    [overall_performance |->
        [validation_success |->
             IF res.total_questions > 0
             THEN Ratio(res.valid_questions, res.total_questions) ELSE Zero,
         challenge_completion |-> student_passes(res)]]

\* challenge.py 152-167
get_instructor_summary(arg) ==
    LET res == ResultsOrLast(arg) IN
    IF res = << >> THEN Returned([error |-> NoResultsMessage])
    ELSE Returned(generate_instructor_summary(res[1]))

\* results_analyzer.py 84-118 get_detailed_statistics: the overview and the metrics
ResultsAnalyzer_get_detailed_statistics(res) ==
    [quiz_overview |->
        [total_questions |-> res.total_questions,
         valid_questions |-> res.valid_questions,
         invalid_questions |-> res.invalid_questions,
         system_errors |-> res.system_errors],
     performance_metrics |->
        [student_wins |-> res.student_wins,
         llm_wins |-> res.llm_wins,
         success_rate |-> res.student_success_rate,
         passes_challenge |-> student_passes(res)]]

\* challenge.py 169-184
get_detailed_statistics(arg) ==
    LET res == ResultsOrLast(arg) IN
    IF res = << >> THEN Returned([error |-> NoResultsMessage])
    ELSE Returned(ResultsAnalyzer_get_detailed_statistics(res[1]))

\* challenge.py 186-199 save_results: ValueError, or the results_dict that
\* QuizRunner.save_results dumps to the file
notebook_save_results(arg) ==
    LET res == ResultsOrLast(arg) IN
    IF res = << >> THEN Raised("ValueError")
    ELSE Returned(QuizRunner_save_results(res[1]))

\* challenge.py 201-227 print_summary: what is printed
print_summary(arg) ==
    LET res == ResultsOrLast(arg) IN
    IF res = << >> THEN Returned(<<NoResultsMessage>>)
    ELSE Returned(
            <<[total_questions |-> res[1].total_questions],
              [valid_questions |-> res[1].valid_questions],
              [student_success_rate |-> res[1].student_success_rate],
              [student_passes |-> student_passes(res[1])]>>
            \o (IF res[1].invalid_questions > 0
                THEN <<[invalid_questions |-> res[1].invalid_questions]>> ELSE << >>)
            \o (IF res[1].system_errors > 0
                THEN <<[system_errors |-> res[1].system_errors]>> ELSE << >>))

GetStudentFeedback ==
    \E arg \in ExplicitResults : Report("get_student_feedback", get_student_feedback(arg))

GetInstructorSummary ==
    \E arg \in ExplicitResults : Report("get_instructor_summary", get_instructor_summary(arg))

GetDetailedStatistics ==
    \E arg \in ExplicitResults : Report("get_detailed_statistics", get_detailed_statistics(arg))

SaveResults ==
    \E arg \in ExplicitResults : Report("save_results", notebook_save_results(arg))

PrintSummary ==
    \E arg \in ExplicitResults : Report("print_summary", print_summary(arg))

NotebookNext ==
    \/ run_quiz_from_questions
    \/ RunnerStart
    \/ RunnerValidate
    \/ RunnerAnswer
    \/ RunnerEvaluate
    \/ RunQuizReturns
    \/ RunQuizRaises
    \/ GetStudentFeedback
    \/ GetInstructorSummary
    \/ GetDetailedStatistics
    \/ SaveResults
    \/ PrintSummary

SpecNotebook == NotebookInit /\ [][NotebookNext]_vars

\* validate_questions_only called, again and again, on an object that has run
\* no quiz or has run the empty quiz
ValidateOnlyInit ==
    /\ impl = "runner"
    /\ questions = << >>
    /\ pc = "notebook"
    /\ i = 0
    /\ correct_answer = None
    /\ llm_answer = None
    /\ results = None
    /\ calls = << >>
    /\ eval_ret = << >>
    /\ parse_in = TransportReply(EmptyText)
    /\ parse_out = NotApplied
    /\ last_results \in ExplicitResults

ValidateOnlyNext ==
    \/ ValidateQuestionsOnlyStart
    \/ ValidateQuestionsOnlyStep

SpecValidateOnly == ValidateOnlyInit /\ [][ValidateOnlyNext]_vars


(***************************************************************************)
(* Properties of the runs.                                                 *)
(***************************************************************************)
\* student_passes of the aggregate of a finished run
Passes == IF impl = "runner" THEN student_passes(results) ELSE results.student_passes

\* the last call of the history
LastCall(log) == log[Len(log)]

\* this step is the call `kind`, and the call failed at transport
CallFailed(kind) ==
    /\ pc = kind
    /\ Len(calls') = Len(calls) + 1
    /\ ~LastCall(calls').ok

\* aggregates with arbitrary fields, as a QuizResults may be constructed
AnyAggregates ==
    [valid_questions : 0..1, student_wins : 0..1, llm_wins : 0..1,
     student_success_rate : {Zero, [num |-> 1, den |-> 2], [num |-> 1, den |-> 1]}]

\* the three conditions of a pass, on the fields of an aggregate
PassCriteria(r) ==
    /\ r.valid_questions > 0
    /\ r.student_wins + r.llm_wins > 0
    /\ r.student_success_rate.num >= r.student_success_rate.den

\* C1: in every aggregate returned by run_sequential_challenge (core.py) and by
\* run_quiz_challenge, student_passes is true exactly when valid_questions > 0,
\* student_wins + llm_wins > 0 and student_success_rate >= 1.0; it is false
\* whenever valid_questions = 0, whatever the other fields are.
C1_StudentPasses ==
    (pc = "done" /\ impl \in {"core", "runner"}) =>
        /\ Passes <=> PassCriteria(results)
        /\ results.valid_questions = 0 => ~Passes
        /\ \A r \in AnyAggregates :
              /\ student_passes(r) <=> PassCriteria(r)
              /\ CorePasses(r.valid_questions, r.student_wins + r.llm_wins,
                            r.student_success_rate) <=> PassCriteria(r)
              /\ r.valid_questions = 0 =>
                    /\ ~student_passes(r)
                    /\ ~CorePasses(0, r.student_wins + r.llm_wins, r.student_success_rate)

\* a run of two valid questions that ends with one win for each side, not passed
C1_Witness ==
    /\ pc = "done"
    /\ impl = "core"
    /\ results.valid_questions = 2
    /\ results.student_wins = 1
    /\ results.llm_wins = 1
    /\ ~results.student_passes

\* C2: when the answerer call for a validated question fails, core.py's
\* run_sequential_challenge and run_quiz_challenge add exactly one to
\* system_errors, change neither student_wins nor llm_wins and do not call the
\* evaluator; the returned student_success_rate is
\* student_wins / (student_wins + llm_wins), or 0.0 when that sum is 0.
C2_AnswererFailure ==
    [][ /\ (impl \in {"core", "runner"} /\ CallFailed("answer")) =>
            /\ results'.system_errors = results.system_errors + 1
            /\ results'.student_wins = results.student_wins
            /\ results'.llm_wins = results.llm_wins
            /\ pc' # "evaluate"
        /\ (impl \in {"core", "runner"} /\ pc # "done" /\ pc' = "done") =>
            LET evaluated == results'.student_wins + results'.llm_wins
                rate == results'.student_success_rate
            IN  IF evaluated > 0
                THEN rate.num * evaluated = results'.student_wins * rate.den
                ELSE rate = Zero
      ]_vars

\* two valid questions, one system error and one student win: success rate 1.0
C2_Witness ==
    /\ pc = "done"
    /\ impl \in {"core", "runner"}
    /\ results.valid_questions = 2
    /\ results.system_errors = 1
    /\ results.student_wins = 1
    /\ results.llm_wins = 0
    /\ results.student_success_rate = [num |-> 1, den |-> 1]
    /\ \E k \in 1..Len(calls) : calls[k].kind = "answer" /\ ~calls[k].ok

\* the records of the questions that were validated and evaluated
EvaluatedRecords ==
    {k \in 1..Len(results.question_results) :
        IF impl = "runner"
        THEN results.question_results[k].error = None
        ELSE results.question_results[k].winner \in {"Student", "LLM"}}

\* student_wins of the k-th record
RecordStudentWins(k) ==
    IF impl = "runner"
    THEN Truthy(results.question_results[k].student_wins)
    ELSE results.question_results[k].student_wins

\* C3: in a run with N >= 1 validated and evaluated questions, student_passes
\* is true if all N evaluations have student_wins = true and false if one of
\* them has student_wins = false; student_passes holds exactly when
\* student_wins >= 1 and llm_wins = 0, whatever the numbers of invalid
\* questions and of system errors.
C3_WinRateMonotonicity ==
    (pc = "done" /\ impl \in {"core", "runner"}) =>
        /\ EvaluatedRecords # {} =>
              (Passes <=> \A k \in EvaluatedRecords : RecordStudentWins(k))
        /\ Passes <=> (results.student_wins >= 1 /\ results.llm_wins = 0)

\* a passed run with one student win beside a system error
C3_Witness ==
    /\ pc = "done"
    /\ impl = "core"
    /\ results.system_errors = 1
    /\ results.student_wins = 1
    /\ results.student_passes


\* the questions whose call `kind` failed at transport
FailedCalls(log, kind) ==
    {log[k].q : k \in {n \in 1..Len(log) : log[n].kind = kind /\ ~log[n].ok}}

\* the questions for which the call `kind` was issued
Called(log, kind) ==
    {log[k].q : k \in {n \in 1..Len(log) : log[n].kind = kind}}

\* C4: in the stand-alone script, an answerer transport failure on a validated
\* question is a system error: the evaluator is not consulted for the
\* question, the question is added to neither student_wins nor llm_wins, and
\* it is left out of the denominator of student_success_rate and of the pass
\* decision.
C4_ScriptAnswererFailure ==
    impl = "script" =>
        /\ Called(calls, "evaluate") \cap FailedCalls(calls, "answer") = {}
        /\ pc = "done" =>
              LET evaluated == results.valid_questions
                                  - Cardinality(FailedCalls(calls, "answer"))
                  rate == results.student_success_rate
              IN  /\ results.student_wins + results.llm_wins = evaluated
                  /\ IF evaluated > 0
                     THEN rate.num * evaluated = results.student_wins * rate.den
                     ELSE rate = Zero
                  /\ results.student_passes <=>
                        (evaluated > 0 /\ results.student_wins = evaluated)

\* the record run_sequential_challenge appended last
LastRecord(res) == res.question_results[Len(res.question_results)]

\* what core.py's run_sequential_challenge does with a failed evaluator call:
\* one more LLM win, recorded as INCORRECT with low confidence and an error
CountedAsLlmWin ==
    /\ results'.llm_wins = results.llm_wins + 1
    /\ results'.student_wins = results.student_wins
    /\ results'.system_errors = results.system_errors
    /\ LastRecord(results').winner = "LLM"
    /\ LastRecord(results').evaluation.verdict = "INCORRECT"
    /\ LastRecord(results').evaluation.confidence = wLOW
    /\ ~LastRecord(results').evaluation.student_wins
    /\ LastRecord(results').evaluation.error \notin {None, EmptyText}

ValidCount(res) ==
    IF "valid_count" \in DOMAIN res THEN res.valid_count ELSE res.valid_questions

\* C6: a validator transport failure yields a result with valid = false and no
\* exception, and every orchestrator treats the question as rejected: it is
\* counted in invalid_questions, valid_questions is not incremented, and no
\* answerer or evaluator call is issued for the question.
C6_ValidatorFailure ==
    [][ /\ \A failure \in Failures :
              /\ ~validate_question(call_llm(failure)).valid
              /\ QuestionValidator_validate_question(failure).exc = "none"
              /\ ~Truthy(QuestionValidator_validate_question(failure).val.valid)
        /\ CallFailed("validate") =>
              /\ pc' # "raised"
              /\ ValidCount(results') = ValidCount(results)
              /\ impl \in {"core", "script"} =>
                    /\ results'.invalid_questions = results.invalid_questions + 1
                    /\ pc' # "answer"
        /\ (Called(calls', "answer") \cup Called(calls', "evaluate"))
              \cap FailedCalls(calls', "validate") = {}
        /\ (impl = "runner" /\ pc # "done" /\ pc' = "done") =>
              /\ results'.invalid_questions = Len(questions) - results'.valid_questions
              /\ results'.invalid_questions >= Cardinality(FailedCalls(calls', "validate"))
      ]_vars

\* a finished run of the runner in which the validator call failed for one
\* question while another question was answered and evaluated
C6_Witness ==
    /\ impl = "runner"
    /\ pc = "done"
    /\ FailedCalls(calls, "validate") # {}
    /\ Called(calls, "evaluate") # {}
    /\ results.invalid_questions = 1
    /\ results.valid_questions = 1


(***************************************************************************)
(* Properties of the parsers.                                              *)
(***************************************************************************)
\* the lines of a response that start with a field prefix
LinesStarting(text, prefix) ==
    {k \in 1..Len(Split(text)) : StartsWith(Split(text)[k], prefix)}

\* the first of a non-empty set of line numbers
First(ks) == CHOOSE k \in ks : \A m \in ks : k <= m

\* the response as the free-text parser named by parse_out received it
Received ==
    IF parse_out.fn = "_parse_validation_response"
    THEN parse_in.content
    ELSE Strip(parse_in.content)

\* C7: every validation result with valid = false, from any validator path
\* (transport failure, the free-text parsers of core.py and validator.py, the
\* structured parser), carries a non-empty reason, for every response text.
C7_InvalidHasReason ==
    /\ (parse_out.fn \in {"validate_question", "_parse_validation_response"}
            /\ ~parse_out.res.valid) =>
          parse_out.res.reason \notin {None, EmptyText}
    /\ (parse_out.fn = "QuestionValidator.validate_question"
            /\ parse_out.res.exc = "none"
            /\ parse_out.res.val.valid.t = "bool"
            /\ ~parse_out.res.val.valid.v) =>
          Truthy(parse_out.res.val.reason)

\* C8 as stated: every evaluator response that contains the literal INCORRECT
\* parses to verdict INCORRECT, even if CORRECT appears as well;
\* 'VERDICT: INCORRECT' parses to INCORRECT and 'VERDICT: CORRECT' to CORRECT.
C8_VerdictPrecedence ==
    (parse_out.fn = "evaluate_llm_answer" /\ parse_out.res.success) =>
        /\ Contains(Received, wINCORRECT) => parse_out.res.verdict = "INCORRECT"
        /\ Received = pVERDICT \o SP \o wINCORRECT => parse_out.res.verdict = "INCORRECT"
        /\ Received = pVERDICT \o SP \o wCORRECT => parse_out.res.verdict = "CORRECT"

\* C8, amended: evaluate_llm_answer takes the verdict from the first line that
\* starts with 'VERDICT:' and from no other line.  With every 'VERDICT:'
\* removed from that line and the rest in upper case, the verdict is INCORRECT
\* if the rest contains INCORRECT, even if CORRECT appears as well, CORRECT if
\* it contains CORRECT only, and INCORRECT otherwise; a line that contains
\* INCORRECT in any letter case always gives INCORRECT.  Without such a line
\* the verdict is INCORRECT.  'VERDICT: INCORRECT' parses to INCORRECT and
\* 'VERDICT: CORRECT' to CORRECT.
C8_VerdictPrecedenceAmended ==
    (parse_out.fn = "evaluate_llm_answer" /\ parse_out.res.success) =>
        LET ks == LinesStarting(Received, pVERDICT)
            line == Split(Received)[First(ks)]
            rest == Upper(Remove(line, pVERDICT))
        IN  /\ ks = {} => parse_out.res.verdict = "INCORRECT"
            /\ ks # {} =>
                  /\ Contains(Upper(line), wINCORRECT) => parse_out.res.verdict = "INCORRECT"
                  /\ parse_out.res.verdict = "CORRECT" <=>
                        (Contains(rest, wCORRECT) /\ ~Contains(rest, wINCORRECT))
                  /\ parse_out.res.verdict \in {"CORRECT", "INCORRECT"}
            /\ Received = pVERDICT \o SP \o wINCORRECT => parse_out.res.verdict = "INCORRECT"
            /\ Received = pVERDICT \o SP \o wCORRECT => parse_out.res.verdict = "CORRECT"

\* a response that contains INCORRECT and CORRECT on its VERDICT: line and
\* parses to INCORRECT
C8_Witness ==
    /\ parse_out.fn = "evaluate_llm_answer"
    /\ parse_out.res.success
    /\ LinesStarting(Received, pVERDICT) # {}
    /\ Contains(Split(Received)[First(LinesStarting(Received, pVERDICT))], wINCORRECT)
    /\ parse_out.res.verdict = "INCORRECT"

\* the structured validator cannot tell validity: the content is no JSON, or
\* it is an object without the key 'valid'
ValidityMissing(text) ==
    LET data == json_loads(Strip(text)) IN
    \/ data = JSONDecodeError
    \/ data.t = "dict" /\ \A k \in 1..Len(data.v) : data.v[k][1] # kvalid

\* C9: when the validator's parser cannot determine validity (no line starting
\* with 'VALIDATION:' in the free-text parsers; a missing 'valid' field or
\* content that is not JSON in the structured parser), the result has
\* valid = false.
C9_FailClosed ==
    /\ (parse_out.fn \in {"validate_question", "_parse_validation_response"}
            /\ parse_in.ok
            /\ LinesStarting(Received, pVALIDATION) = {}) =>
          ~parse_out.res.valid
    /\ (parse_out.fn = "QuestionValidator.validate_question"
            /\ parse_in.ok
            /\ ValidityMissing(parse_in.content)) =>
          /\ parse_out.res.exc = "none"
          /\ parse_out.res.val.valid.t = "bool"
          /\ ~parse_out.res.val.valid.v


(***************************************************************************)
(* Properties of the counted evaluations.                                  *)
(***************************************************************************)
\* no key of an object: the default handed to JGet to see that a key is absent
Missing == [t |-> "missing", v |-> << >>]

\* C10 for a record of core.py: the evaluator's response is in raw_evaluation
CoreRecordAgrees(rec) ==
    LET raw == rec.evaluation.raw_evaluation
        ks == LinesStarting(raw, pSTUDENT_WINS)
        explicit == Contains(Upper(Split(raw)[First(ks)]), wTRUE)
    IN  /\ ks = {} => (rec.evaluation.student_wins <=> rec.evaluation.verdict = "INCORRECT")
        /\ ks # {} => (rec.evaluation.student_wins <=> explicit)
        /\ rec.winner = IF rec.evaluation.student_wins THEN "Student" ELSE "LLM"

\* C10 for a record of quiz_runner.py: the evaluator's response is in raw_evaluation
RunnerRecordAgrees(rec) ==
    LET data == json_loads(rec.raw_evaluation)
        explicit == JGet(data, kstudent_wins, Missing)
        verdict == JGet(data, kverdict, Missing)
    IN  /\ explicit.t = "missing" =>
              (Truthy(rec.student_wins) <=> (verdict.t = "str" /\ verdict.v = wINCORRECT))
        /\ explicit.t # "missing" => (Truthy(rec.student_wins) <=> Truthy(explicit))

\* the records of the questions whose evaluator response was parsed and counted
CountedRecords ==
    {k \in 1..Len(results.question_results) :
        IF impl = "runner"
        THEN results.question_results[k].error = None
        ELSE /\ results.question_results[k].winner \in {"Student", "LLM"}
             /\ "raw_evaluation" \in DOMAIN results.question_results[k].evaluation}

\* C10: for every evaluation an orchestrator counts, student_wins equals
\* (verdict = INCORRECT) unless the evaluator's response carries an explicit
\* student_wins field (a 'STUDENT_WINS:' line in core.py, the key
\* 'student_wins' in quiz_runner.py); the explicit field, when present, decides
\* which of student_wins and llm_wins is incremented.
C10_StudentWinsFollowsVerdict ==
    (impl \in {"core", "runner"} /\ pc \in {"request_missing_answer", "validate",
                                             "answer", "evaluate", "done"}) =>
        /\ \A k \in CountedRecords :
              IF impl = "runner"
              THEN RunnerRecordAgrees(results.question_results[k])
              ELSE CoreRecordAgrees(results.question_results[k])
        /\ results.student_wins =
              Cardinality({k \in EvaluatedRecords : RecordStudentWins(k)})
        /\ results.llm_wins =
              Cardinality({k \in EvaluatedRecords : ~RecordStudentWins(k)})

(***************************************************************************)
(* Properties of the component boundaries.                                 *)
(***************************************************************************)
\* C11: no component operation raises: for every transport outcome and every
\* response text, QuestionValidator.validate_question and the evaluation step
\* of run_quiz_challenge return a tagged result and the run goes on, so
\* run_quiz_challenge is never left by an exception.
C11_NoComponentRaises == impl = "runner" => pc # "raised"


\* the content of a response is not JSON text: json.loads raises JSONDecodeError
Undecodable(o) == o.ok /\ json_loads(chat(o).content) = JSONDecodeError

\* this step of run_quiz_challenge is the call `kind`, and the call failed at
\* transport or its response could not be deserialized
NothingDecoded(kind) ==
    /\ impl = "runner"
    /\ pc = kind
    /\ Len(calls') = Len(calls) + 1
    /\ ~LastCall(calls').ok \/ Undecodable(LastCall(calls').reply)

\* the questions whose validator call failed at transport or returned a
\* response that could not be deserialized
NothingValidated(log) ==
    {log[k].q : k \in {n \in 1..Len(log) :
        log[n].kind = "validate" /\ (~log[n].ok \/ Undecodable(log[n].reply))}}

\* C12: in the structured-output pipeline a response that fails to deserialize
\* (its content is not JSON text) has the effect of a transport failure of the
\* same call.  Validator: both give valid = false, the question is not counted
\* valid and no answerer or evaluator call is issued for it.  Evaluator of
\* run_quiz_challenge: both add exactly one to system_errors, leave student_wins
\* and llm_wins unchanged, and record the question with student_wins = false,
\* is_correct = false and a non-empty error.
C12_DecodeFailureIsTransportFailure ==
    [][ /\ NothingDecoded("validate") =>
              /\ LET ret == QuestionValidator_validate_question(LastCall(calls').reply) IN
                 /\ ret.exc = "none"
                 /\ ret.val.valid = JBool(FALSE)
              /\ pc' # "raised"
              /\ ValidCount(results') = ValidCount(results)
              /\ pc' # "done" => ~Truthy(results'.validation_results[i].valid)
        /\ impl = "runner" =>
              (Called(calls', "answer") \cup Called(calls', "evaluate"))
                  \cap NothingValidated(calls') = {}
        /\ (impl = "runner" /\ pc # "done" /\ pc' = "done") =>
              results'.invalid_questions >= Cardinality(NothingValidated(calls'))
        /\ NothingDecoded("evaluate") =>
              /\ pc' # "raised"
              /\ results'.system_errors = results.system_errors + 1
              /\ results'.student_wins = results.student_wins
              /\ results'.llm_wins = results.llm_wins
              /\ Len(results'.question_results) = Len(results.question_results) + 1
              /\ LastRecord(results').question.number = i
              /\ LastRecord(results').student_wins = JBool(FALSE)
              /\ LastRecord(results').is_correct = FALSE
              /\ LastRecord(results').error \notin {None, EmptyText}
      ]_vars

\* a finished run of the runner with two questions: the validator's response for
\* one was not JSON, the other was valid and answered and the evaluator's
\* response for it was not JSON
C12_Witness ==
    /\ impl = "runner"
    /\ pc = "done"
    /\ \E m, n \in 1..Len(calls) :
          /\ calls[m].kind = "validate" /\ Undecodable(calls[m].reply)
          /\ calls[n].kind = "evaluate" /\ Undecodable(calls[n].reply)
    /\ results.invalid_questions = 1
    /\ results.system_errors = 1
    /\ results.student_wins + results.llm_wins = 0


(***************************************************************************)
(* Properties of the course of a run.                                      *)
(***************************************************************************)
\* the calls of one kind issued for question q
CallsFor(log, kind, q) == {n \in 1..Len(log) : log[n].kind = kind /\ log[n].q = q}

\* no call is issued twice for a question, and calls are issued in question order
NeverRetried ==
    /\ \A q \in 1..Len(questions) : \A kind \in {"validate", "answer", "evaluate"} :
          Cardinality(CallsFor(calls, kind, q)) <= 1
    /\ \A m, n \in 1..Len(calls) :
          (m < n /\ calls[m].kind = calls[n].kind) => calls[m].q < calls[n].q

\* the aggregate of a finished run puts every question in exactly one of the
\* terminal states Invalid, SystemError and Evaluated
EveryQuestionTerminal ==
    /\ results.total_questions = Len(questions)
    /\ results.invalid_questions + results.system_errors
          + results.student_wins + results.llm_wins = Len(questions)
    /\ results.valid_questions + results.invalid_questions = Len(questions)

\* C13: every question of a run of run_sequential_challenge (core.py) and of
\* run_quiz_challenge ends in exactly one terminal state among Invalid,
\* SystemError and Evaluated; no call is retried; and no call stops the run: the
\* run is not left before all questions are processed and its aggregate covers
\* all total_questions.
C13_EveryQuestionEnds ==
    impl \in {"core", "runner"} =>
        /\ NeverRetried
        /\ pc # "raised"
        /\ pc = "done" => EveryQuestionTerminal

\* the part of C13 that holds: the same without the runs of run_quiz_challenge
\* that an exception leaves
EveryQuestionEndsUnlessRaised ==
    (impl \in {"core", "runner"} /\ pc # "raised") =>
        /\ NeverRetried
        /\ pc = "done" => EveryQuestionTerminal


\* C14: in run_sequential_challenge (core.py) a question whose reference answer
\* is empty first goes through request_missing_answer; if that yields no answer
\* the question goes directly to Invalid: invalid_questions increases by one,
\* system_errors and valid_questions are unchanged, and no validator, answerer
\* or evaluator call is issued for it.
C14_MissingAnswerIsInvalid ==
    [][ impl = "core" =>
          \* an empty reference answer is asked for before anything else
          /\ (pc' = "request_missing_answer") <=>
                (i' \in 1..Len(questions) /\ questions[i'].answer = EmptyText
                    /\ i' # i)
          /\ (pc' = "validate" /\ questions[i'].answer = EmptyText) =>
                (pc = "request_missing_answer" /\ i' = i)
          \* every call is issued for the question in progress
          /\ i' >= i
          /\ Len(calls') > Len(calls) => LastCall(calls').q = i
          /\ pc = "request_missing_answer" =>
                \/ \* an answer was given: on to validation with it
                   /\ pc' = "validate"
                   /\ i' = i
                   /\ Strip(correct_answer') # EmptyText
                   /\ results' = results
                   /\ calls' = calls
                \/ \* no answer: Invalid, without any call
                   /\ i' = i + 1
                   /\ pc' # "validate" \/ questions[i'].answer # EmptyText
                   /\ results'.invalid_questions = results.invalid_questions + 1
                   /\ results'.system_errors = results.system_errors
                   /\ results'.valid_questions = results.valid_questions
                   /\ results'.question_results = results.question_results
                   /\ calls' = calls
                   /\ \A n \in 1..Len(calls) : calls[n].q # i
      ]_vars

\* a finished core run of two questions: no answer was given for the first,
\* whose reference answer is empty, and the second was validated and evaluated
C14_Witness ==
    /\ impl = "core"
    /\ pc = "done"
    /\ Len(questions) = 2
    /\ questions[1].answer = EmptyText
    /\ \A n \in 1..Len(calls) : calls[n].q = 2
    /\ Called(calls, "evaluate") = {2}
    /\ results.invalid_questions = 1
    /\ results.valid_questions = 1
    /\ results.system_errors = 0


\* the question number a per-question record carries
RecordNumber(rec) == IF impl = "runner" THEN rec.question.number ELSE rec.question_number

\* the record of a question that ended Invalid: an INVALID outcome with the
\* validation result of the question
RecordsInvalid(rec) ==
    IF impl = "runner"
    THEN ~Truthy(rec.question.validation_result.valid)
    ELSE /\ rec.evaluation.verdict = "INVALID"
         /\ rec.winner = "Invalid Question"
         /\ ~rec.validation.valid

\* C15: after a run the per-question results of the aggregate hold exactly one
\* record for every input question, in input order, and the record of a
\* question that ended Invalid has an INVALID outcome and its validation result.
C15_OneRecordPerQuestion ==
    (impl \in {"core", "runner"} /\ pc = "done") =>
        /\ Len(results.question_results) = Len(questions)
        /\ \A k \in 1..Len(results.question_results) :
              RecordNumber(results.question_results[k]) = k
        /\ Cardinality({k \in 1..Len(results.question_results) :
                            RecordsInvalid(results.question_results[k])})
              = results.invalid_questions


(***************************************************************************)
(* Properties of the returned aggregates.                                  *)
(***************************************************************************)
\* an entry point has returned its aggregate
RunReturned == pc \in {"done", "no_quiz"}

\* the counts of an aggregate that generate_student_feedback reads besides
\* total_questions and valid_questions (core.py 849-854)
FeedbackCounts == {"invalid_questions", "system_errors", "student_wins", "llm_wins"}

\* C16: every aggregate returned by a run entry point (run_sequential_challenge,
\* run_challenge_from_raw_input with its parse-failure branch,
\* run_quiz_challenge) contains the counts invalid_questions, system_errors,
\* student_wins and llm_wins that generate_student_feedback reads.
C16_CountsPresent == RunReturned => FeedbackCounts \subseteq DOMAIN results


Exited == pc \in {"exit_0", "exit_1", "exit_2", "exit_sigint"}

\* the status it exited with
ExitStatus ==
    CASE pc = "exit_0" -> 0
      [] pc = "exit_1" -> 1
      [] pc = "exit_2" -> 2
      [] OTHER         -> 130

\* C18: the command-line entry points exit with status 0 if and only if the
\* run completed and student_passes of its aggregate is true; every other
\* outcome (the student fails, no valid questions, quiz file missing, missing
\* API key, fatal exception, interrupt) exits with a non-zero status. Stated
\* on the step on which the process exits.
C18_ExitStatus ==
    [][(~Exited /\ Exited') => (ExitStatus' = 0 <=> (pc = "done" /\ Passes))]_vars

\* the same, setting aside the one exit that happens while the script is still
\* reading the questions from the terminal
ExitStatusOfStartedRuns ==
    [][(~Exited /\ Exited' /\ pc # "idle")
          => (ExitStatus' = 0 <=> (pc = "done" /\ Passes))]_vars

\* before a run: only the cancelled terminal input of the script exits with 0
ExitStatusBeforeRun ==
    [][(pc = "idle" /\ Exited' /\ ExitStatus' = 0) => impl = "script"]_vars


(***************************************************************************)
(* Properties of the answerer request.                                     *)
(***************************************************************************)
\* a request has been built for the drawn quiz entry
Asked == parse_out # NotApplied /\ parse_out.fn \in {"core", "script", "runner"}

\* the drawn quiz entry and context with another reference answer
WithAnswer(input, answer) == [input EXCEPT !.question_data.answer = answer]

\* C19: non-interference of the reference answer: the request an orchestrator
\* sends to the answerer for a quiz entry is the request it sends for every
\* entry with the same question text and another reference answer, under the
\* same loaded context; so the request depends on the question text and the
\* context only.
C19_RequestIgnoresAnswer ==
    Asked =>
        \A answer \in ReferenceAnswers :
            LET other == WithAnswer(parse_in, answer)
            IN  AskAnswerer(parse_out.fn, other.question_data, other.context) = parse_out.res

\* a request built under a loaded context for an entry with a reference answer
\* the question text does not hold, which carries question and context
C19_Witness ==
    /\ Asked
    /\ parse_out.fn = "runner"
    /\ parse_in.question_data = [question |-> <<"Q","1">>, answer |-> tBad]
    /\ parse_in.context = tCtx
    /\ parse_out.res.prompt = pQuestion \o <<"Q","1">> \o pPleaseAnswer
    /\ Contains(parse_out.res.system_message, tCtx)
    /\ ~Contains(parse_out.res.prompt, tBad)
    /\ ~Contains(parse_out.res.system_message, tBad)


(***************************************************************************)
(* Properties of the persisted results.                                    *)
(***************************************************************************)
CountKeys ==
    {"total_questions", "valid_questions", "invalid_questions", "system_errors",
     "student_wins", "llm_wins"}

\* the member of a reconstructed JSON object, null if there is none
Field(doc, key) == JGet(doc, Chars(key), JNull)

\* C20: round trip of the persisted results: for the aggregate every run
\* returns, the JSON text save_results writes, read back, holds every count
\* of the aggregate, its pass flag and, record by record, the winner
\* assignment of every question result, with the values they have in the
\* aggregate; and writing what was read back gives the same text.
C20_PersistedRoundTrip ==
    RunReturned =>
        LET text == written(results)
            back == json_load(text)
            records == Field(back, "question_results").v
        IN  /\ back.t = "dict"
            /\ \A c \in CountKeys \cap DOMAIN results : Field(back, c) = JInt(results[c])
            /\ pc = "done" => Field(back, "student_passes") = JBool(Passes)
            /\ Len(records) = Len(results.question_results)
            /\ \A k \in 1..Len(records) :
                   LET qr == results.question_results[k] IN
                   IF impl = "runner"
                   THEN Field(records[k], "student_wins") = qr.student_wins
                   ELSE /\ Field(records[k], "winner") = JStr(Chars(qr.winner))
                        /\ Field(records[k], "student_wins") = JBool(qr.student_wins)
            /\ json_dump(back, 0) = text

\* a finished run of the runner with one question won by each side, whose
\* persisted text reads back as two records and a rate of one half
C20_Witness ==
    /\ pc = "done"
    /\ impl = "runner"
    /\ results.student_wins = 1
    /\ results.llm_wins = 1
    /\ LET back == json_load(written(results)) IN
       /\ Field(back, "student_success_rate") = JFloat(Ratio(1, 2))
       /\ Len(Field(back, "question_results").v) = 2
       /\ Field(back, "student_passes") = JBool(FALSE)
       /\ Field(back, "llm_wins") = JInt(1)

(***************************************************************************)
(* Properties of validate_questions_only (challenge.py 280-299).           *)
(***************************************************************************)

\* the calls of the log are one validator call for each of the first n questions,
\* in question order, and nothing else
OneValidatorCallEach(log, n) ==
    /\ Len(log) = n
    /\ \A k \in 1..n : log[k].kind = "validate" /\ log[k].q = k

SummaryAddsUp(summary) ==
    summary.valid_questions + summary.invalid_questions = summary.total_questions

\* C21: when validate_questions_only ends, it has issued exactly one validator
\* call per input question and no answerer or evaluator call, last_results is
\* what it was, and the summary it returns has
\* valid_questions + invalid_questions = total_questions.
C21_ValidateOnlyCallsEachQuestion ==
    [][ pc' = "notebook" =>
          /\ OneValidatorCallEach(calls', Len(questions'))
          /\ last_results' = last_results
          /\ parse_out'.res.exc = "none" =>
                /\ parse_out'.res.val.total_questions = Len(questions')
                /\ SummaryAddsUp(parse_out'.res.val) ]_vars

\* what remains true of every call: the validator is called once per question
\* in order up to the question whose response made validate_question raise,
\* nothing else is called, last_results is kept, and a summary that is
\* returned adds up
ValidateOnlyUnlessRaised ==
    [][ /\ last_results' = last_results
        /\ \A k \in 1..Len(calls') : calls'[k].kind = "validate" /\ calls'[k].q = k
        /\ pc' = "notebook" =>
              IF parse_out'.res.exc = "none"
              THEN /\ OneValidatorCallEach(calls', Len(questions'))
                   /\ parse_out'.res.val.total_questions = Len(questions')
                   /\ SummaryAddsUp(parse_out'.res.val)
              ELSE /\ Len(calls') <= Len(questions')
                   /\ QuestionValidator_validate_question(LastCall(calls').reply).exc
                        = parse_out'.res.exc ]_vars

\* a call on two questions has returned a summary of one valid and one invalid question
ValidateOnlyReturnedMixed ==
    /\ pc = "notebook"
    /\ parse_out.fn = "validate_questions_only"
    /\ parse_out.res.exc = "none"
    /\ Len(questions) = 2
    /\ parse_out.res.val.valid_questions = 1
    /\ last_results # << >>

(***************************************************************************)
(* Properties of the order of the calls of a run.                          *)
(***************************************************************************)

\* the calls of the log of the kinds given, in the order they were issued
CallsOfKinds(log, kinds) == SelectSeq(log, LAMBDA c : c.kind \in kinds)

\* the calls of different questions do not interleave: once a call for a
\* question is issued, no call for an earlier question follows
InQuestionOrder(log) ==
    \A m, n \in 1..Len(log) : m < n => log[m].q <= log[n].q

ValidationPassed(reply) ==
    IF impl = "runner"
    THEN LET ret == QuestionValidator_validate_question(reply)
         IN  ret.exc = "none" /\ Truthy(ret.val.valid)
    ELSE validate_question(call_llm(reply)).valid

\* what the orchestrator in use makes of the reply to an answerer call: success
AnswererSucceeded(reply) ==
    IF impl = "runner" THEN chat(reply).success
    ELSE send_question_to_quiz_llm(reply).success

\* the questions whose validator call returned valid = true
PassedValidation(log) ==
    {log[n].q : n \in {m \in 1..Len(log) :
                          log[m].kind = "validate" /\ ValidationPassed(log[m].reply)}}

\* at most one call of each kind per question; an answerer call only after the
\* validator call of its question returned valid = true
ValidatorThenAnswerer ==
    /\ \A q \in 1..Len(questions) : \A kind \in {"validate", "answer", "evaluate"} :
          Cardinality(CallsFor(calls, kind, q)) <= 1
    /\ \A n \in 1..Len(calls) :
          calls[n].kind = "answer" =>
              \E m \in 1..(n - 1) :
                  /\ calls[m].kind = "validate" /\ calls[m].q = calls[n].q
                  /\ ValidationPassed(calls[m].reply)

\* an evaluator call only after the answerer call of its question
AnswererThenEvaluator ==
    \A n \in 1..Len(calls) :
        calls[n].kind = "evaluate" =>
            \E m \in 1..(n - 1) : calls[m].kind = "answer" /\ calls[m].q = calls[n].q

\* ... and only if that answerer call returned success
EvaluatorOnlyAfterSuccess ==
    \A n \in 1..Len(calls) :
        calls[n].kind = "evaluate" =>
            \E m \in 1..(n - 1) :
                /\ calls[m].kind = "answer" /\ calls[m].q = calls[n].q
                /\ AnswererSucceeded(calls[m].reply)

\* valid_questions counts the questions whose validator call returned
\* valid = true, from the moment the call returned and whatever the answerer
\* and the evaluator return afterwards
ValidCountedAtValidation ==
    pc \in {"validate", "answer", "evaluate", "done"} /\ calls # << >> =>
        ValidCount(results) = Cardinality(PassedValidation(calls))

\* C23: for each question there is at most one validator call, then at most one
\* answerer call, issued only if validation returned valid = true, then at most
\* one evaluator call, issued only if the answerer returned success;
\* valid_questions is incremented when valid = true is obtained, before the
\* answerer call and independently of its outcome.
C23_CallProtocol ==
    /\ ValidatorThenAnswerer
    /\ AnswererThenEvaluator
    /\ EvaluatorOnlyAfterSuccess
    /\ ValidCountedAtValidation

\* the same without the clause the stand-alone script breaks
CallProtocolButEvaluatorGuard ==
    /\ ValidatorThenAnswerer
    /\ AnswererThenEvaluator
    /\ impl # "script" => EvaluatorOnlyAfterSuccess
    /\ ValidCountedAtValidation

(***************************************************************************)
(* Properties of the free-text parsers of core.py.                         *)
(***************************************************************************)

\* C24: a validator response with no line starting with 'VALIDATION:' parses
\* to valid = true, and an evaluator response with no line starting with
\* 'VERDICT:' parses to verdict INCORRECT.
C24_ParserDefaults ==
    /\ (parse_out.fn = "validate_question" /\ parse_in.ok
            /\ LinesStarting(Received, pVALIDATION) = {}) =>
          parse_out.res.valid
    /\ (parse_out.fn = "evaluate_llm_answer" /\ parse_in.ok
            /\ LinesStarting(Received, pVERDICT) = {}) =>
          parse_out.res.verdict = "INCORRECT"

\* C24, amended: the defaults are those of a response that is not empty once
\* stripped; an empty response is not parsed, it is handled like a failed
\* call: valid = false, and success = false with verdict ERROR.
C24_ParserDefaultsAmended ==
    /\ (parse_out.fn = "validate_question" /\ parse_in.ok
            /\ LinesStarting(Received, pVALIDATION) = {}) =>
          IF Received = EmptyText
          THEN ~parse_out.res.valid /\ parse_out.res.reason = tUnavailable
          ELSE parse_out.res.valid
    /\ (parse_out.fn = "evaluate_llm_answer" /\ parse_in.ok
            /\ LinesStarting(Received, pVERDICT) = {}) =>
          IF Received = EmptyText
          THEN ~parse_out.res.success /\ parse_out.res.verdict = "ERROR"
          ELSE parse_out.res.success /\ parse_out.res.verdict = "INCORRECT"

\* an evaluator response of two lines, none starting with 'VERDICT:' although
\* one holds the word, has parsed to INCORRECT
C24_Witness ==
    /\ parse_out.fn = "evaluate_llm_answer"
    /\ parse_in.ok
    /\ Len(Split(Received)) = 2
    /\ LinesStarting(Received, pVERDICT) = {}
    /\ Contains(Received, pVERDICT \o SP \o wCORRECT)
    /\ parse_out.res.verdict = "INCORRECT"

\* a validator response without a 'VALIDATION:' line has parsed to valid
ValidatorDefaultTaken ==
    /\ parse_out.fn = "validate_question"
    /\ parse_in.ok
    /\ Received # EmptyText
    /\ LinesStarting(Received, pVALIDATION) = {}
    /\ parse_out.res.valid

\* the free-text parsers, the prefixes each looks for and the field each
\* prefix stands for
FreeTextParsers == {"validate_question", "evaluate_llm_answer", "_parse_validation_response"}

PrefixField(fn) ==
    IF fn = "evaluate_llm_answer"
    THEN {<<pVERDICT, "verdict">>, <<pEXPLANATION, "explanation">>,
          <<pCONFIDENCE, "confidence">>, <<pSTUDENT_WINS, "student_wins">>}
    ELSE IF fn = "validate_question"
    THEN {<<pVALIDATION, "valid">>, <<pISSUES, "issues">>, <<pREASON, "reason">>}
    ELSE {<<pVALIDATION, "valid">>, <<pISSUES, "issues">>, <<pREASON, "reason">>,
          <<pCONFIDENCE, "confidence">>}

\* the parser named fn applied to a response as it receives it
ParsedBy(fn, text) ==
    IF fn = "evaluate_llm_answer" THEN evaluate_llm_answer(Strip(text))
    ELSE IF fn = "validate_question" THEN validate_question(Strip(text))
    ELSE _parse_validation_response(text)

\* the response without the lines that start with the prefix and come after
\* the first such line
DropLater(text, prefix) ==
    LET lines == Split(text)
        ks == LinesStarting(text, prefix)
        kept == SelectSeq([k \in 1..Len(lines) |-> k],
                          LAMBDA k : k \notin ks \/ k = First(ks))
    IN  Join([n \in 1..Len(kept) |-> lines[kept[n]]])

\* the fields that hold the whole response: the raw text, and the reason or the
\* explanation of a response without a REASON: or EXPLANATION: line
WholeResponseFields(text) ==
    {"raw_validation", "raw_evaluation"}
    \cup (IF LinesStarting(text, pREASON) = {} THEN {"reason"} ELSE {})
    \cup (IF LinesStarting(text, pEXPLANATION) = {} THEN {"explanation"} ELSE {})

\* two parsed results agree on every field but those named
SameBut(r1, r2, fields) ==
    /\ DOMAIN r1 = DOMAIN r2
    /\ \A f \in DOMAIN r1 \ fields : r1[f] = r2[f]

\* C25: in the free-text parsers, for each field prefix only the first response
\* line that starts with the prefix determines the field; changing, adding or
\* removing any later line with the same prefix never changes the parsed
\* result: the result is that of the response without the later lines.
C25_FirstLineOnly ==
    (parse_out.fn \in FreeTextParsers /\ parse_in.ok) =>
        \A pf \in PrefixField(parse_out.fn) :
            LinesStarting(Received, pf[1]) # {} =>
                SameBut(parse_out.res, ParsedBy(parse_out.fn, DropLater(Received, pf[1])),
                        {"raw_validation", "raw_evaluation"})

\* C25, amended: only the first line that starts with a prefix determines the
\* field of that prefix, and a later line with the same prefix changes no
\* parsed field but the one that defaults to the whole response: the reason of
\* a validator response without a REASON: line and the explanation of an
\* evaluator response without an EXPLANATION: line.
C25_FirstLineOnlyAmended ==
    (parse_out.fn \in FreeTextParsers /\ parse_in.ok) =>
        \A pf \in PrefixField(parse_out.fn) :
            LinesStarting(Received, pf[1]) # {} =>
                LET first == ParsedBy(parse_out.fn, DropLater(Received, pf[1])) IN
                /\ parse_out.res[pf[2]] = first[pf[2]]
                /\ SameBut(parse_out.res, first, WholeResponseFields(Received))

\* a response with two VERDICT: lines that disagree has parsed to the verdict
\* of the first
C25_Witness ==
    /\ parse_out.fn = "evaluate_llm_answer"
    /\ parse_in.ok
    /\ Cardinality(LinesStarting(Received, pVERDICT)) = 2
    /\ Split(Received)[1] = pVERDICT \o SP \o wINCORRECT
    /\ Split(Received)[2] = pVERDICT \o SP \o wCORRECT
    /\ parse_out.res.verdict = "INCORRECT"
    /\ parse_out.res.student_wins

(***************************************************************************)
(* Properties of the counters of a run.                                    *)
(***************************************************************************)

\* the counters of run_sequential_challenge (the keys of its results dict) and
\* of run_quiz_challenge (its local variables, the fields of its QuizResults)
Counters(res) ==
    IF "valid_count" \in DOMAIN res
    THEN [valid_questions |-> res.valid_count,
          invalid_questions |-> Len(res.validation_results) - res.valid_count,
          student_wins |-> res.student_wins,
          llm_wins |-> res.llm_wins,
          system_errors |-> res.system_errors]
    ELSE [valid_questions |-> res.valid_questions,
          invalid_questions |-> res.invalid_questions,
          student_wins |-> res.student_wins,
          llm_wins |-> res.llm_wins,
          system_errors |-> res.system_errors]

CounterNames ==
    {"valid_questions", "invalid_questions", "student_wins", "llm_wins", "system_errors"}

\* the counters account for n questions
Conserved(c, n) ==
    /\ c.valid_questions + c.invalid_questions = n
    /\ c.student_wins + c.llm_wins + c.system_errors = c.valid_questions

\* the run holds its counters: it has started, no exception has left it, and it
\* is no run that stopped at the raw input
Counting(where, res) ==
    /\ where \in {"request_missing_answer", "validate", "answer", "evaluate", "done"}
    /\ "error" \notin DOMAIN res

\* no question is in progress: the loop is about to take the next question, or
\* the run has returned
BetweenQuestions(where) == where \in {"request_missing_answer", "validate", "done"}

\* the counters are non-negative and none has decreased in the step
NeverDecrease ==
    /\ \A name \in CounterNames : Counters(results')[name] >= 0
    /\ Counting(pc, results) =>
          \A name \in CounterNames : Counters(results')[name] >= Counters(results)[name]

\* the step completes a question of the second loop of run_quiz_challenge
RunnerCompletes == pc \in {"answer", "evaluate"} /\ pc' \in {"answer", "done"}

RecordsWinner(res, winner) ==
    {k \in 1..Len(res.question_results) : res.question_results[k].winner = winner}

\* C27: in every aggregate returned by run_sequential_challenge (core.py),
\* student_wins, llm_wins and system_errors are the numbers of question_results
\* whose winner is 'Student', 'LLM' and 'System Error', and a record has
\* student_wins = true only if its winner is 'Student'; in every QuizResults
\* returned by run_quiz_challenge, student_wins is the number of records with
\* a true student_wins and system_errors the number of records with an error
\* that is not None.
C27_CountersAgreeWithRecords ==
    (pc = "done" /\ "error" \notin DOMAIN results) =>
        /\ impl = "core" =>
              /\ results.student_wins = Cardinality(RecordsWinner(results, "Student"))
              /\ results.llm_wins = Cardinality(RecordsWinner(results, "LLM"))
              /\ results.system_errors = Cardinality(RecordsWinner(results, "System Error"))
              /\ \A k \in 1..Len(results.question_results) :
                    results.question_results[k].student_wins =>
                        results.question_results[k].winner = "Student"
        /\ impl = "runner" =>
              /\ results.student_wins =
                    Cardinality({k \in 1..Len(results.question_results) :
                                    Truthy(results.question_results[k].student_wins)})
              /\ results.system_errors =
                    Cardinality({k \in 1..Len(results.question_results) :
                                    results.question_results[k].error # None})

\* run_quiz_challenge has returned an aggregate of one student win and one
\* system error
C27_Witness ==
    /\ impl = "runner"
    /\ pc = "done"
    /\ Len(results.question_results) = 2
    /\ results.student_wins = 1
    /\ results.system_errors = 1
    /\ Truthy(results.question_results[1].student_wins)
    /\ results.question_results[2].error # None

\* run_sequential_challenge has returned an aggregate with a record of each winner
CoreEachWinnerRecorded ==
    /\ impl = "core"
    /\ pc = "done"
    /\ "error" \notin DOMAIN results
    /\ RecordsWinner(results, "Student") # {}
    /\ RecordsWinner(results, "System Error") # {}

\* an evaluator response, as evaluate_llm_answer receives it from call_llm,
\* that is not empty and has neither a VERDICT: nor a STUDENT_WINS: line
Unmarked(reply) ==
    /\ reply.ok
    /\ Strip(reply.content) # EmptyText
    /\ LinesStarting(Strip(reply.content), pVERDICT) = {}
    /\ LinesStarting(Strip(reply.content), pSTUDENT_WINS) = {}

\* C28: in core.py a non-empty evaluator response with neither a line starting
\* with 'VERDICT:' nor one starting with 'STUDENT_WINS:' is parsed as
\* success = true, verdict INCORRECT, student_wins = true, and
\* run_sequential_challenge counts the question as a student win
\* (student_wins + 1), not as an LLM win or a system error.
C28_UnmarkedEvaluationIsStudentWin ==
    [][ (impl = "core" /\ pc = "evaluate" /\ Unmarked(LastCall(calls').reply)) =>
          LET evaluation == eval_ret'[1]
              record == results'.question_results[Len(results'.question_results)]
          IN  /\ evaluation.success
              /\ evaluation.verdict = "INCORRECT"
              /\ evaluation.student_wins
              /\ record.question_number = i
              /\ record.winner = "Student"
              /\ record.student_wins
              /\ results'.student_wins = results.student_wins + 1
              /\ results'.llm_wins = results.llm_wins
              /\ results'.system_errors = results.system_errors ]_vars

\* the evaluator answered the only question with a text that holds the word
\* VERDICT: but on no line start, and the run returned one student win
C28_Witness ==
    /\ impl = "core"
    /\ pc = "done"
    /\ Len(questions) = 1
    /\ calls # << >>
    /\ LastCall(calls).kind = "evaluate"
    /\ Unmarked(LastCall(calls).reply)
    /\ Contains(LastCall(calls).reply.content, pVERDICT \o SP \o wCORRECT)
    /\ results.student_wins = 1
    /\ results.llm_wins = 0
    /\ results.student_passes

\* the text of a line after the prefix it starts with
AfterPrefix(line, prefix) == SubSeq(line, Len(prefix) + 1, Len(line))

\* the first line of the response received that starts with the prefix
FirstLineStarting(prefix) == Split(Received)[First(LinesStarting(Received, prefix))]

\* C29: in evaluate_llm_answer of core.py, when a 'STUDENT_WINS:' line is
\* present, student_wins is true exactly when the upper-cased text after the
\* prefix on the first such line contains TRUE, whatever the verdict and
\* whether or not FALSE occurs on the line as well.
C29_StudentWinsLine ==
    (parse_out.fn = "evaluate_llm_answer" /\ parse_out.res.success
        /\ LinesStarting(Received, pSTUDENT_WINS) # {}) =>
        (parse_out.res.student_wins <=>
            Contains(Upper(AfterPrefix(FirstLineStarting(pSTUDENT_WINS), pSTUDENT_WINS)), wTRUE))

\* C29, amended: what is searched for TRUE is the first 'STUDENT_WINS:' line
\* with every 'STUDENT_WINS:' removed, in upper case; for a line that holds the
\* prefix once this is the text after the prefix.
C29_StudentWinsLineAmended ==
    (parse_out.fn = "evaluate_llm_answer" /\ parse_out.res.success
        /\ LinesStarting(Received, pSTUDENT_WINS) # {}) =>
        LET line == FirstLineStarting(pSTUDENT_WINS)
            after == AfterPrefix(line, pSTUDENT_WINS)
        IN  /\ parse_out.res.student_wins <=>
                  Contains(Upper(Remove(line, pSTUDENT_WINS)), wTRUE)
            /\ ~Contains(after, pSTUDENT_WINS) =>
                  (parse_out.res.student_wins <=> Contains(Upper(after), wTRUE))

\* 'VERDICT: CORRECT' followed by 'STUDENT_WINS: FALSE (TRUE)' has parsed to
\* verdict CORRECT and student_wins = true
C29_Witness ==
    /\ parse_out.fn = "evaluate_llm_answer"
    /\ parse_out.res.success
    /\ Split(Received) = <<pVERDICT \o SP \o wCORRECT,
                           pSTUDENT_WINS \o SP \o wFALSE \o <<" ","(">> \o wTRUE \o <<")">> >>
    /\ parse_out.res.verdict = "CORRECT"
    /\ parse_out.res.student_wins

(***************************************************************************)
(* Properties of the notebook interface (challenge.py).                    *)
(***************************************************************************)

\* the step is the return of a run_quiz_from_questions call whose run returned
RunReturns == pc = "done" /\ pc' = "notebook"

\* the step is a reporting call, from its call to its return
Reports == pc = "notebook" /\ pc' = "notebook"

\* what a reporting call returns when there are no results to report: the
\* message, alone or under the key 'error', printed by print_summary, or the
\* ValueError of save_results, which writes nothing
NoResultsValue(fn) ==
    CASE fn = "get_student_feedback" -> Returned(NoResultsMessage)
      [] fn = "get_instructor_summary" -> Returned([error |-> NoResultsMessage])
      [] fn = "get_detailed_statistics" -> Returned([error |-> NoResultsMessage])
      [] fn = "print_summary" -> Returned(<<NoResultsMessage>>)
      [] fn = "save_results" -> Raised("ValueError")

\* what a reporting call returns for the explicit results the model hands it
ExplicitValue(fn) ==
    CASE fn = "get_student_feedback" -> get_student_feedback(<<HeldResults>>)
      [] fn = "get_instructor_summary" -> get_instructor_summary(<<HeldResults>>)
      [] fn = "get_detailed_statistics" -> get_detailed_statistics(<<HeldResults>>)
      [] fn = "print_summary" -> print_summary(<<HeldResults>>)
      [] fn = "save_results" -> notebook_save_results(<<HeldResults>>)

\* C30: last_results is None until a run has returned and afterwards is the
\* aggregate of the most recent run that returned: it is assigned when a run
\* returns, to the aggregate returned, and at no other step; a run that raises
\* and every reporting call leave it unchanged; with last_results None and no
\* explicit results the reporting calls return the 'No quiz results available'
\* value and save_results raises ValueError without writing.
C30_LastResults ==
    [][ /\ RunReturns =>
              /\ last_results' = <<results>>
              /\ parse_out'.res = Returned(results)
        /\ ~RunReturns => last_results' = last_results
        /\ pc = "raised" =>
              /\ last_results' = last_results
              /\ parse_out'.res.exc # "none"
        /\ Reports =>
              /\ last_results' = last_results
              /\ last_results = << >> =>
                    \/ parse_out'.res = NoResultsValue(parse_out'.fn)
                    \/ /\ parse_out'.res = ExplicitValue(parse_out'.fn)
                       /\ parse_out'.res # NoResultsValue(parse_out'.fn) ]_vars

\* what the object holds is the aggregate of a run that returned: it is None
\* or covers a quiz the notebook can run
HoldsAnAggregate ==
    last_results # << >> =>
        /\ last_results[1].total_questions \in 0..MaxNotebookQuestions
        /\ last_results[1].valid_questions + last_results[1].invalid_questions
              = last_results[1].total_questions

\* a run has raised after an earlier run returned an aggregate of one valid
\* question, and the object still holds that aggregate
C30_Witness ==
    /\ pc = "notebook"
    /\ parse_out.fn = "run_quiz_from_questions"
    /\ parse_out.res.exc = "AttributeError"
    /\ last_results # << >>
    /\ last_results[1].valid_questions = 1

\* save_results was called on an object without results and raised ValueError
SaveWithoutResults ==
    /\ pc = "notebook"
    /\ last_results = << >>
    /\ parse_out.fn = "save_results"
    /\ parse_out.res = Raised("ValueError")

=============================================================================
